---- MODULE Spec2Model ----
(***************************************************************************)
(* Elevation tile resolution and compositing of osgEarth's ElevationLayer  *)
(* (src/src/osgEarth/ElevationLayer.cpp).                                   *)
(*                                                                         *)
(* Part 1 models ElevationLayer::createHeightField and                      *)
(* createHeightFieldInKeyProfile as a per-thread state machine over the    *)
(* two cache tiers; part 2 models                                           *)
(* ElevationLayerVector::populateHeightFieldAndNormalMap; part 3 models    *)
(* ElevationLayer::assembleHeightField; part 4 counts the grids that the   *)
(* sampling loop of populateHeightFieldAndNormalMap holds on a long vector;*)
(* part 5 models createNormalMap on grids of any shape.                    *)
(***************************************************************************)
EXTENDS Integers, Sequences, FiniteSets, TLC

VARIABLES
    layer,      \* the ElevationLayer object: options, cache policy, status
    memCache,   \* _memCache default bin: memCacheKey -> heightfield
    cacheBin,   \* persistent cache bin: cacheKey -> (heightfield, lastModifiedTime)
    now,        \* wall clock read by CachePolicy::isExpired
    th,         \* per thread: position in createHeightField and its locals
    canceled,   \* per thread: state of the call's ProgressCallback token
    last,       \* history: the createHeightField call that returned last
    numCalls,   \* history: the number of createHeightField calls started
    stack,      \* the ElevationLayerVector: its layers, lowest priority first
    sel,        \* populateHeightFieldAndNormalMap: contenders, offsets, numFallbackLayers
    ws,         \* its working set: heightFields, heightFallback, heightFailed, ...
    out,        \* its outputs: hf, deltaLOD, normalMap, realData
    pos,        \* its position: pc, column c, row r, returned value
    token,      \* the ProgressCallback of the composite call: canceled or not
    trace,      \* history of the composite call: per-pixel winners, resolves made
    asm,        \* assembleHeightField: its position, locals and outputs
    held,       \* the sampling loop of a long vector: how many grids it holds
    nmap        \* createNormalMap: the grid's shape, deltaLOD, its position, its reads

rvars == <<layer, memCache, cacheBin, now, th, canceled, last, numCalls>>

cvars == <<stack, sel, ws, out, pos, token, trace>>

avars == <<asm>>

hvars == <<held>>

nvars == <<nmap>>

----------------------------------------------------------------------------
(* Bounds of the model *)

\* number of createHeightField calls started in one behaviour
MaxCalls == 2
\* the clock runs from 0 to MaxTime
MaxTime == 1
\* the largest number of native tiles that intersect the requested key
MaxTiles == 2
\* the levels of the layer's profile are 0..MaxLOD
MaxLOD == 2
\* the largest numbers of contenders and of offsets in a long vector
MaxContenders == 51
MaxOffsets == 2
\* the largest numbers of columns and of rows of a grid handed to
\* createNormalMap, and the largest LOD delta recorded in it
MaxColumns == 3
MaxRows == 3
MaxDelta == 2

----------------------------------------------------------------------------
(* Heightfields *)

\* the sentinel elevation
NO_DATA_VALUE == -9999
\* a float NaN sample (compares unequal to every number)
NaN == -7777

\* a null osg::ref_ptr<osg::HeightField> / GeoHeightField::INVALID
NullHF == [cols |-> 0, rows |-> 0, heights |-> <<>>]

valid(hf) == hf # NullHF

HF(cols, rows, heights) == [cols |-> cols, rows |-> rows, heights |-> heights]

validateHeightField(hf) ==
    /\ hf # NullHF
    /\ ~(hf.rows < 2 \/ hf.rows > 1024)
    /\ ~(hf.cols < 2 \/ hf.cols > 1024)
    /\ ~(Len(hf.heights) # hf.cols * hf.rows)

\* normalizeNoDataValues leaving every sample as it is
normalizeNoDataValues_Identity(hf) == hf

\* ElevationLayer::normalizeNoDataValues
normalizeNoDataValues(hf) ==
    IF hf = NullHF THEN hf
    ELSE [hf EXCEPT !.heights =
            [i \in DOMAIN hf.heights |->
                LET value == hf.heights[i] IN
                IF \/ value = NaN
                   \/ value = layer.noDataValue
                   \/ (value # NaN /\ value < layer.minValidValue)
                   \/ (value # NaN /\ value > layer.maxValidValue)
                THEN NO_DATA_VALUE
                ELSE value]]

\* VerticalDatum::transform(from, to, extent, hf): shifts every elevation by
\* the separation of the two datums at the sample's location
VerticalDatumTransform(hf) ==
    [hf EXCEPT !.heights =
        [i \in DOMAIN hf.heights |->
            IF hf.heights[i] \in {NO_DATA_VALUE, NaN} THEN hf.heights[i]
            ELSE hf.heights[i] + layer.vdatumShift]]

----------------------------------------------------------------------------
(* Tile keys *)

Profiles == {"map", "other"}

TileKey(lod, x, y, profile) == [lod |-> lod, x |-> x, y |-> y, profile |-> profile]

\* the keys createHeightField is called with
Key1 == TileKey(1, 0, 0, "map")
Key2 == TileKey(1, 1, 0, "map")
Keys == {Key1, Key2}

\* TileLayer::isKeyInLegalRange taking every key for legal
isKeyInLegalRange_Always(lay, key) == TRUE

\* TileLayer::isKeyInLegalRange
isKeyInLegalRange(lay, key) ==
    /\ key.lod >= lay.minLevel
    /\ key.lod <= lay.maxLevel

\* Cache::makeCacheKey(key.str() + "-" + horizSignature, "elevation")
cacheKey(key) == <<key.lod, key.x, key.y, key.profile>>

\* sprintf(memCacheKey, "%d/%s/%s", getRevision(), key.str(), horizSignature)
memCacheKey(key) == <<layer.revision, key.lod, key.x, key.y, key.profile>>

----------------------------------------------------------------------------
(* The data source and the cache contents *)

\* what the source backend holds for a key: raw samples, in the source's
\* vertical datum, with NaN, the layer's own no-data value and out-of-range
\* samples among them
SourceHF(key) ==
    HF(3, 2, <<10 * key.lod, NaN, layer.noDataValue, layer.maxValidValue + 1,
               layer.minValidValue - 1, layer.minValidValue>>)

\* a heightfield of illegal dimensions, as a broken backend produces it
IllegalHF == HF(2, 1, <<5, 6>>)

\* a heightfield whose sample count does not match its dimensions
MismatchedHF == HF(2, 2, <<5, 6, 7>>)

\* a persistent payload written by an earlier run from older source data,
\* under other options: one sample is what the layer now takes for no data
StaleHF == HF(2, 2, <<1, 2, -500, NO_DATA_VALUE>>)

NoEntry == [hf |-> NullHF, lastModifiedTime |-> -1]

\* CachePolicy::isExpired(lastModifiedTime)
isExpired(lastModifiedTime) == lastModifiedTime + layer.maxAge < now

----------------------------------------------------------------------------
(* ElevationLayer::createHeightField, one thread's call *)

Threads == {1, 2}

\* a thread outside createHeightField; the locals of
\* createHeightFieldInKeyProfile at their initial values
Idle == [pc |-> "idle", key |-> TileKey(0, 0, 0, "map"), progress |-> FALSE,
         hf |-> NullHF, result |-> NullHF, cachedHF |-> NullHF,
         fromCache |-> FALSE, fromMemCache |-> FALSE, expired |-> FALSE,
         fetch |-> "none", readCache |-> FALSE, wroteCache |-> FALSE,
         wroteMemCache |-> FALSE, started |-> 0]

\* a caller invokes createHeightField(key, progress) with a key of keys;
\* progress may be null
Call(t, keys) ==
    /\ th[t].pc = "idle"
    /\ numCalls < MaxCalls
    /\ \E key \in keys, progress \in BOOLEAN :
          th' = [th EXCEPT ![t] = [Idle EXCEPT !.pc = "createHeightField",
                                               !.key = key,
                                               !.progress = progress,
                                               !.started = now]]
    /\ numCalls' = numCalls + 1
    /\ canceled' = [canceled EXCEPT ![t] = FALSE]
    /\ UNCHANGED <<layer, memCache, cacheBin, now, last>>

\* createHeightFieldInKeyProfile reaches a return statement with locals me
Return(t, me) ==
    /\ th' = [th EXCEPT ![t] = [me EXCEPT !.pc = "return"]]
    /\ UNCHANGED last

\* return GeoHeightField::INVALID
ReturnInvalid(t) == Return(t, [th[t] EXCEPT !.result = NullHF])

\* lines 328-337 with the enabled test dropped
unavailable_StatusOnly == layer.statusError

\* lines 328-337: getStatus().isError(), getEnabled() == false
unavailable == layer.statusError \/ ~layer.enabled

\* lines 321-347: status and enabled checks; the sentry lock is commented out
createHeightField(t) ==
    /\ th[t].pc = "createHeightField"
    /\ IF unavailable
       THEN ReturnInvalid(t)
       ELSE /\ th' = [th EXCEPT ![t].pc = "memCache"] /\ UNCHANGED last
    /\ UNCHANGED <<layer, memCache, cacheBin, now, canceled, numCalls>>

\* lines 368-375 with a read that never succeeds
memCacheHit_Never(key) == FALSE

\* lines 368-375: _memCache.valid() and cacheResult.succeeded()
memCacheHit(key) == layer.memCache /\ memCacheKey(key) \in DOMAIN memCache

\* lines 367-382: the L2 memory cache
readMemCache(t) ==
    /\ th[t].pc = "memCache"
    /\ LET key == th[t].key
           hit == memCacheHit(key)
       IN  th' = [th EXCEPT ![t] =
                    IF hit
                    THEN [@ EXCEPT !.result = memCache[memCacheKey(key)],
                                   !.fromMemCache = TRUE,
                                   !.pc = "cancel2"]
                    ELSE [@ EXCEPT !.pc = "mainCache"]]
    /\ UNCHANGED <<layer, memCache, cacheBin, now, canceled, last, numCalls>>

\* line 403 without the policy test
mayRead_Ungated == layer.cacheBin

\* line 403: cacheBin && policy.isCacheReadable()
mayRead == layer.cacheBin /\ layer.cachePolicy.readable

\* line 422 with the exit removed
cacheOnlyExit_Never(hf) == FALSE

\* line 422: !hf.valid() && policy.isCacheOnly()
cacheOnlyExit(hf) == ~valid(hf) /\ layer.cachePolicy.cacheOnly

\* line 428 with the test removed
needsCreate_Always(hf) == TRUE

\* line 428: "If we didn't get anything from cache, time to create one"
needsCreate(hf) == ~valid(hf)

\* lines 384-428: the persistent cache
readCacheBin(t) ==
    /\ th[t].pc = "mainCache"
    /\ LET key == th[t].key
           policy == layer.cachePolicy
       IN
       IF ~policy.cacheOnly /\ ~layer.hasProfile
       THEN \* disable("Could not establish a valid profile")
            /\ layer' = [layer EXCEPT !.enabled = FALSE, !.statusError = TRUE]
            /\ ReturnInvalid(t)
       ELSE
         LET succeeded == /\ mayRead
                          /\ cacheKey(key) \in DOMAIN cacheBin
             r == IF succeeded THEN cacheBin[cacheKey(key)] ELSE NoEntry
             expired == isExpired(r.lastModifiedTime)
             cachedHF == r.hf
             usable == succeeded /\ validateHeightField(cachedHF) /\ ~expired
             hf == IF usable THEN cachedHF ELSE NullHF
             me == [th[t] EXCEPT !.cachedHF = cachedHF,
                                 !.readCache = mayRead,
                                 !.expired = succeeded /\ expired,
                                 !.hf = hf,
                                 !.fromCache = usable]
         IN
         /\ UNCHANGED layer
         /\ IF cacheOnlyExit(hf)
            THEN Return(t, [me EXCEPT !.result = NullHF])
            ELSE /\ th' = [th EXCEPT ![t] =
                            IF needsCreate(hf)
                            THEN [me EXCEPT !.pc = "create"]
                            ELSE [me EXCEPT !.result = hf, !.pc = "cancel2"]]
                 /\ UNCHANGED last
    /\ UNCHANGED <<memCache, cacheBin, now, canceled, numCalls>>

\* what createHeightFieldImplementation can answer for a key: the source's
\* data, nothing, or a heightfield of illegal shape
SourceAnswers(key) == {SourceHF(key), NullHF, IllegalHF}

fetchKind(hf) == IF hf = NullHF THEN "failed"
                 ELSE IF validateHeightField(hf) THEN "ok" ELSE "illegal"

\* lines 427-451: legal-range check, then the source backend
create(t) ==
    /\ th[t].pc = "create"
    /\ LET key == th[t].key IN
       IF ~isKeyInLegalRange(layer, key)
       THEN ReturnInvalid(t)
       ELSE \E answer \in SourceAnswers(key) :
            /\ th' = [th EXCEPT ![t] = [@ EXCEPT !.result = answer,
                                                 !.fetch = fetchKind(answer),
                                                 !.pc = "cancel1"]]
            /\ UNCHANGED last
    /\ UNCHANGED <<layer, memCache, cacheBin, now, canceled, numCalls>>

\* progress && progress->isCanceled()
isCanceled(t) == th[t].progress /\ canceled[t]

\* lines 453-457: "Check for cancelation before writing to a cache"
checkCancel1(t) ==
    /\ th[t].pc = "cancel1"
    /\ IF isCanceled(t)
       THEN ReturnInvalid(t)
       ELSE /\ th' = [th EXCEPT ![t].pc = "post"]
            /\ UNCHANGED last
    /\ UNCHANGED <<layer, memCache, cacheBin, now, canceled, numCalls>>

\* a write that drops the other entries of the bin
writeBin_Clearing(bin, k, entry) == [x \in {k} |-> entry]

\* bin->write(key, hf): the entry's time stamp is the time of the write
writeBin(bin, k, entry) ==
    [x \in DOMAIN bin \cup {k} |-> IF x = k THEN entry ELSE bin[x]]

\* cacheable with the fromCache test inverted
cacheable_FromCacheOnly(hf, fromCache) ==
    /\ valid(hf)
    /\ layer.cacheBin
    /\ fromCache
    /\ layer.cachePolicy.writable

\* lines 494-497: "If we have a cacheable heightfield, and it didn't come
\* from the cache itself, cache it now"
cacheable(hf, fromCache) ==
    /\ valid(hf)
    /\ layer.cacheBin
    /\ ~fromCache
    /\ layer.cachePolicy.writable

\* lines 505-509 with the fallback removed
useCached_Never(hf, cachedHF) == hf

\* lines 505-509: "If we have an expired heightfield from the cache and were
\* not able to create any new data, just return the cached data"
useCached(hf, cachedHF) ==
    IF ~valid(hf) /\ valid(cachedHF) THEN cachedHF ELSE hf

\* lines 459-521: validate, vertical datum, no-data, persistent write, fallback
postProcess(t) ==
    /\ th[t].pc = "post"
    /\ LET key == th[t].key
           hf0 == th[t].result
           \* line 465
           hf1 == IF valid(hf0) /\ ~validateHeightField(hf0) THEN NullHF ELSE hf0
           \* line 473
           hf2 == IF valid(hf1) /\ layer.vdatumDiffers
                  THEN VerticalDatumTransform(hf1) ELSE hf1
           \* line 489
           hf3 == normalizeNoDataValues(hf2)
           \* line 494
           write == cacheable(hf3, th[t].fromCache)
           \* line 505
           hf4 == useCached(hf3, th[t].cachedHF)
           me == [th[t] EXCEPT !.hf = hf4, !.result = hf4, !.wroteCache = write]
       IN
       /\ cacheBin' = IF write
                      THEN writeBin(cacheBin, cacheKey(key),
                                    [hf |-> hf3, lastModifiedTime |-> now])
                      ELSE cacheBin
       /\ IF ~valid(hf4)
          THEN Return(t, me)
          ELSE /\ th' = [th EXCEPT ![t] = [me EXCEPT !.pc = "cancel2"]]
               /\ UNCHANGED last
    /\ UNCHANGED <<layer, memCache, now, canceled, numCalls>>

\* lines 524-528: "Check for cancelation before writing to a cache"
checkCancel2(t) ==
    /\ th[t].pc = "cancel2"
    /\ IF isCanceled(t)
       THEN ReturnInvalid(t)
       ELSE /\ th' = [th EXCEPT ![t].pc = "memWrite"]
            /\ UNCHANGED last
    /\ UNCHANGED <<layer, memCache, cacheBin, now, canceled, numCalls>>

\* memCacheable with the fromMemCache test inverted
memCacheable_FromMemCacheOnly(result, fromMemCache) ==
    valid(result) /\ fromMemCache /\ layer.memCache

\* line 531: result.valid() && !fromMemCache && _memCache.valid()
memCacheable(result, fromMemCache) ==
    valid(result) /\ ~fromMemCache /\ layer.memCache

\* lines 530-537: write through to the memory cache and return
writeMemCache(t) ==
    /\ th[t].pc = "memWrite"
    /\ LET key == th[t].key
           write == memCacheable(th[t].result, th[t].fromMemCache)
       IN
       /\ memCache' = IF write
                      THEN writeBin(memCache, memCacheKey(key), th[t].result)
                      ELSE memCache
       /\ Return(t, [th[t] EXCEPT !.wroteMemCache = write])
    /\ UNCHANGED <<layer, cacheBin, now, canceled, numCalls>>

\* what the history keeps of a call
NoCall == [key |-> Idle.key, result |-> NullHF, fetch |-> "none",
           canceled |-> FALSE, started |-> -1,
           firstKey |-> Idle.key, firstValid |-> NullHF]

\* the caller receives th[t].result
return(t) ==
    /\ th[t].pc = "return"
    /\ last' = [key |-> th[t].key, result |-> th[t].result, fetch |-> th[t].fetch,
                canceled |-> canceled[t], started |-> th[t].started,
                firstKey |-> IF ~valid(last.firstValid) /\ valid(th[t].result)
                             THEN th[t].key ELSE last.firstKey,
                firstValid |-> IF ~valid(last.firstValid) /\ valid(th[t].result)
                               THEN th[t].result ELSE last.firstValid]
    /\ th' = [th EXCEPT ![t] = Idle]
    /\ UNCHANGED <<layer, memCache, cacheBin, now, canceled, numCalls>>

\* the owner of the ProgressCallback cancels it while the call runs
Cancel(t) ==
    /\ th[t].pc \notin {"idle", "return"}
    /\ th[t].progress
    /\ ~canceled[t]
    /\ canceled' = [canceled EXCEPT ![t] = TRUE]
    /\ UNCHANGED <<layer, memCache, cacheBin, now, th, last, numCalls>>

\* time passes. The clock is read by readCacheBin (isExpired) and by
\* postProcess (the time stamp of the write) only, so the ticks that matter
\* are those between calls and right before these two steps.
Tick ==
    /\ now < MaxTime
    /\ \A t \in Threads : th[t].pc \in {"idle", "mainCache", "post"}
    /\ now' = now + 1
    /\ UNCHANGED <<layer, memCache, cacheBin, th, canceled, last, numCalls>>

\* one step of thread t inside createHeightField
Step(t) ==
    \/ createHeightField(t)
    \/ readMemCache(t)
    \/ readCacheBin(t)
    \/ create(t)
    \/ checkCancel1(t)
    \/ postProcess(t)
    \/ checkCancel2(t)
    \/ writeMemCache(t)
    \/ return(t)

----------------------------------------------------------------------------
(* The layer and the initial cache contents *)

CachePolicies ==
    [readable : BOOLEAN, writable : BOOLEAN, cacheOnly : BOOLEAN]

\* a layer with a profile, a persistent bin and legal keys only
PlainLayers ==
    [enabled : {TRUE}, statusError : {FALSE}, hasProfile : {TRUE},
     memCache : BOOLEAN, cacheBin : {TRUE}, cachePolicy : CachePolicies,
     maxAge : {0}, revision : {0},
     minLevel : {0}, maxLevel : {2},
     vdatumDiffers : {FALSE}, vdatumShift : {100},
     noDataValue : {-500}, minValidValue : {-100}, maxValidValue : {9000}]

PlainLayer ==
    [enabled |-> TRUE, statusError |-> FALSE, hasProfile |-> TRUE,
     memCache |-> TRUE, cacheBin |-> TRUE,
     cachePolicy |-> [readable |-> TRUE, writable |-> TRUE, cacheOnly |-> FALSE],
     maxAge |-> 0, revision |-> 0,
     minLevel |-> 0, maxLevel |-> 2,
     vdatumDiffers |-> FALSE, vdatumShift |-> 100,
     noDataValue |-> -500, minValidValue |-> -100, maxValidValue |-> 9000]

\* the options and state of the layer when the first call arrives
Layers ==
    PlainLayers \cup
    {[PlainLayer EXCEPT !.enabled = FALSE],
     [PlainLayer EXCEPT !.statusError = TRUE],
     [PlainLayer EXCEPT !.hasProfile = FALSE],
     [PlainLayer EXCEPT !.hasProfile = FALSE, !.cachePolicy.cacheOnly = TRUE],
     [PlainLayer EXCEPT !.cacheBin = FALSE],
     [PlainLayer EXCEPT !.cacheBin = FALSE, !.memCache = FALSE],
     [PlainLayer EXCEPT !.maxLevel = 0],
     [PlainLayer EXCEPT !.maxLevel = 0, !.memCache = FALSE],
     [PlainLayer EXCEPT !.vdatumDiffers = TRUE],
     [PlainLayer EXCEPT !.vdatumDiffers = TRUE, !.memCache = FALSE]}

\* what the persistent bin can hold for a key when the process starts: nothing,
\* a payload written by an earlier run, or a payload damaged on disk
InitialEntries ==
    {[hf |-> StaleHF, lastModifiedTime |-> 0],
     [hf |-> MismatchedHF, lastModifiedTime |-> 0]}

InitialBins ==
    {<< >>} \cup
    UNION {[{cacheKey(key)} -> InitialEntries] : key \in Keys}

RInit ==
    /\ layer \in Layers
    /\ memCache = << >>
    /\ cacheBin \in InitialBins
    /\ now = 0
    /\ th = [t \in Threads |-> Idle]
    /\ canceled = [t \in Threads |-> FALSE]
    /\ last = NoCall
    /\ numCalls = 0

vars == <<rvars, cvars, avars, hvars, nvars>>

----------------------------------------------------------------------------
(* ElevationLayerVector::populateHeightFieldAndNormalMap: its inputs *)

\* the output heightfield hf has NumColumns x NumRows samples
NumColumns == 2
NumRows == 2
\* the number of layers in the ElevationLayerVector
NumLayers == 2

\* line 858
total == NumColumns * NumRows

\* the position of sample (c, r) in the height list and in deltaLOD (line 1001)
index(c, r) == r * NumColumns + c + 1

\* the column and the row of the sample at position p
columnOf(p) == (p - 1) % NumColumns
rowOf(p) == (p - 1) \div NumColumns

\* TileKey::INVALID
INVALID_KEY == TileKey(-1, 0, 0, "map")

keyValid(k) == k.lod >= 0

\* TileKey::createParentKey
createParentKey(k) ==
    IF k.lod <= 0 THEN INVALID_KEY
    ELSE TileKey(k.lod - 1, k.x \div 2, k.y \div 2, k.profile)

\* TileKey::createAncestorKey
RECURSIVE createAncestorKey(_, _)
createAncestorKey(k, lod) ==
    IF ~keyValid(k) \/ k.lod <= lod THEN k
    ELSE createAncestorKey(createParentKey(k), lod)

\* osg::Image::computeNearestPowerOfTwo, as TileKey::mapResolution uses it
RECURSIVE nextPowerOf2From(_, _)
nextPowerOf2From(n, pot) == IF pot >= n THEN pot ELSE nextPowerOf2From(n, 2 * pot)

\* the loop of TileKey::mapResolution
RECURSIVE mapResolutionLOD(_, _, _)
mapResolutionLOD(lod, targetSizePOT, sourceSize) ==
    IF targetSizePOT >= sourceSize \/ lod = 0 THEN lod
    ELSE mapResolutionLOD(lod - 1, targetSizePOT * 2, sourceSize)

\* TileKey::mapResolution(targetSize, sourceSize)
mapResolution(k, targetSize, sourceSize) ==
    IF k.lod = 0 \/ targetSize >= sourceSize \/ targetSize = 0 \/ sourceSize = 0
    THEN k
    ELSE createAncestorKey(k,
            mapResolutionLOD(k.lod, nextPowerOf2From(targetSize, 1), sourceSize))

\* the tile the caller asks for (`key`)
requestKey == TileKey(2, 2, 1, "map")

\* line 722: the caller gives no HAE profile
keyToUse == requestKey

\* where a layer's tiles have samples, as seen from the output grid:
\* "data" is an elevation, "nodata" the sentinel, "outside" a point for which
\* GeoHeightField::getElevation returns false
maskAt(mask, c, r) ==
    CASE mask = "full"   -> "data"
      [] mask = "corner" -> IF c = 0 /\ r = 0 THEN "data" ELSE "nodata"
      [] mask = "hole"   -> IF c = 0 /\ r = 0 THEN "nodata" ELSE "data"
      [] mask = "nodata" -> "nodata"
      [] mask = "edge"   -> IF c = 0 THEN "outside" ELSE "data"

\* a layer of the vector, as populateHeightFieldAndNormalMap sees it
BaseLayer ==
    [enabled |-> TRUE, visible |-> TRUE, offset |-> FALSE,
     minLevel |-> 0, maxLevel |-> 2, tileSize |-> NumColumns,
     intersects |-> TRUE, maxDataLevel |-> 2,
     fetchable |-> {0, 1, 2}, mask |-> "full"]

OffsetLayer == [BaseLayer EXCEPT !.offset = TRUE]

\* the layers a vector is made of
LayerKinds ==
    {BaseLayer,
     [BaseLayer EXCEPT !.mask = "corner"],
     [BaseLayer EXCEPT !.mask = "nodata"],
     [BaseLayer EXCEPT !.maxDataLevel = 1],
     [BaseLayer EXCEPT !.fetchable = {0, 1}, !.mask = "hole"],
     [BaseLayer EXCEPT !.fetchable = {}],
     [BaseLayer EXCEPT !.minLevel = 1, !.fetchable = {0}],
     [BaseLayer EXCEPT !.tileSize = 2 * NumColumns, !.mask = "edge"],
     [BaseLayer EXCEPT !.enabled = FALSE, !.visible = FALSE],
     [BaseLayer EXCEPT !.visible = FALSE],
     [BaseLayer EXCEPT !.minLevel = 3],
     [OffsetLayer EXCEPT !.intersects = FALSE],
     OffsetLayer,
     [OffsetLayer EXCEPT !.mask = "corner"],
     [OffsetLayer EXCEPT !.maxDataLevel = 1]}

\* TileLayer::getBestAvailableTileKey: the key itself, or its ancestor at the
\* layer's deepest data level, or invalid when the layer has no data there
getBestAvailableTileKey(lay, k) ==
    IF ~lay.intersects THEN INVALID_KEY
    ELSE IF k.lod > lay.maxDataLevel THEN createAncestorKey(k, lay.maxDataLevel)
    ELSE k

\* a GeoHeightField of a layer of the vector: the tile of `layer` at `lod`
Tile(i, lod) == [layer |-> i, lod |-> lod]
INVALID == Tile(-1, -1)

\* the elevation a tile holds at output sample (c, r); tiles of different
\* layers and levels hold different elevations
elevationOf(tile, c, r) ==
    IF maskAt(stack[tile.layer].mask, c, r) = "nodata"
    THEN NO_DATA_VALUE
    ELSE 1000 * (tile.layer + 1) + 100 * tile.lod + index(c, r)

\* GeoHeightField::getElevation(keySRS, x, y, interpolation, keySRS, elevation):
\* false when (x, y) lies outside the tile
getElevation(tile, c, r) == maskAt(stack[tile.layer].mask, c, r) # "outside"

\* tiles are square: getTileSize() columns and rows
tileColumns(i) == stack[i].tileSize
tileRows(i) == stack[i].tileSize

----------------------------------------------------------------------------
(* populateHeightFieldAndNormalMap: layer selection, lines 740-833 *)

LayerData(i, k) == [index |-> i, key |-> k]

\* line 755
mappedKey(i) == mapResolution(keyToUse, NumColumns, stack[i].tileSize)

\* line 781
bestKey(i) == getBestAvailableTileKey(stack[i], mappedKey(i))

\* lines 752-797 without the test of line 766
useLayer_IgnoringMinLevel(i) ==
    /\ stack[i].enabled /\ stack[i].visible
    /\ keyValid(bestKey(i))

\* lines 752-797: the layer is enabled, the key is not below its minLevel and
\* the layer has a best available key
useLayer(i) ==
    /\ stack[i].enabled /\ stack[i].visible
    /\ ~(requestKey.lod < stack[i].minLevel)
    /\ keyValid(bestKey(i))

\* lines 748-821: the used layers i, i-1, ..., 0 that are offsets (or are
\* not), highest priority first
RECURSIVE collect(_, _)
collect(i, isOffset) ==
    IF i < 0 THEN << >>
    ELSE (IF useLayer(i) /\ stack[i].offset = isOffset
          THEN <<LayerData(i, bestKey(i))>> ELSE << >>)
         \o collect(i - 1, isOffset)

\* lines 786-789
countFallbackLayers ==
    Cardinality({i \in 0..(NumLayers - 1) : useLayer(i) /\ mappedKey(i) # bestKey(i)})

\* line 830
allFallback_Never(numLayers, numFallbackLayers) == FALSE

allFallback(numLayers, numFallbackLayers) == numLayers = numFallbackLayers

\* the heightfield and the normal map the caller hands in
PriorHF == [p \in 1..total |-> 0]

NoSelection == [contenders |-> << >>, offsets |-> << >>, numFallbackLayers |-> 0]

\* lines 844-871: the locals of the sampling loop
NewWorkingSet(nc, no) ==
    [heightFields |-> [i \in 1..nc |-> INVALID],
     offsetFields |-> [i \in 1..no |-> INVALID],
     heightFallback |-> [i \in 1..nc |-> FALSE],
     heightFailed |-> [i \in 1..nc |-> FALSE],
     offsetFailed |-> [i \in 1..no |-> FALSE],
     numHeightFieldsInCache |-> 0,
     nodataCount |-> 0]

NoTrace ==
    [resolves |-> 0,
     source |-> {},
     resolvedIndex |-> [p \in 1..total |-> -2],
     base |-> [p \in 1..total |-> [height |-> 0, delta |-> 0]],
     real |-> [p \in 1..total |-> FALSE],
     applied |-> [p \in 1..total |-> {}],
     tileLOD |-> [p \in 1..total |-> -1],
     walk |-> [i \in 1..NumLayers |-> [calls |-> 0, actualKey |-> INVALID_KEY]],
     cancelPC |-> "",
     filled |-> FALSE]

CInit ==
    /\ stack \in [0..(NumLayers - 1) -> LayerKinds]
    /\ sel = NoSelection
    /\ ws = NewWorkingSet(0, 0)
    /\ out \in {[hf |-> PriorHF, deltaLOD |-> << >>, normalMap |-> nm,
                 realData |-> FALSE] : nm \in {"null", "prior"}}
    /\ pos = [pc |-> "select", c |-> 0, r |-> 0, result |-> FALSE]
    /\ token = FALSE
    /\ trace = NoTrace

\* the compositor at rest, while createHeightField is looked at on its own
CIdle ==
    /\ stack = [i \in 0..(NumLayers - 1) |-> BaseLayer]
    /\ sel = NoSelection
    /\ ws = NewWorkingSet(0, 0)
    /\ out = [hf |-> PriorHF, deltaLOD |-> << >>, normalMap |-> "null",
              realData |-> FALSE]
    /\ pos = [pc |-> "done", c |-> 0, r |-> 0, result |-> FALSE]
    /\ token = FALSE
    /\ trace = NoTrace

returnFrom(result) == [pos EXCEPT !.pc = "done", !.result = result]

\* lines 740-871
selectLayers ==
    /\ pos.pc = "select"
    /\ LET contenders == collect(NumLayers - 1, FALSE)
           offsets == collect(NumLayers - 1, TRUE)
           numFallbackLayers == countFallbackLayers
       IN /\ sel' = [contenders |-> contenders, offsets |-> offsets,
                     numFallbackLayers |-> numFallbackLayers]
          /\ IF contenders = << >> /\ offsets = << >>
             THEN /\ pos' = returnFrom(FALSE)
                  /\ UNCHANGED <<ws, out>>
             ELSE IF allFallback(Len(contenders) + Len(offsets), numFallbackLayers)
             THEN /\ pos' = returnFrom(FALSE)
                  /\ UNCHANGED <<ws, out>>
             ELSE /\ pos' = [pos EXCEPT !.pc = "fast"]
                  /\ ws' = NewWorkingSet(Len(contenders), Len(offsets))
                  /\ out' = [out EXCEPT !.deltaLOD =
                                IF out.normalMap # "null"
                                THEN [p \in 1..total |-> 0] ELSE << >>]
    /\ UNCHANGED <<stack, token, trace>>
    /\ UNCHANGED rvars

----------------------------------------------------------------------------
(* populateHeightFieldAndNormalMap: sampling, lines 873-1114 *)

\* line 851
maxHeightFields == 50

\* lines 328-337 and 431-440: createHeightField of layer i, which holds no
\* cache here, goes on to createHeightFieldImplementation with key k
sourceCalled(i, k) == stack[i].enabled /\ isKeyInLegalRange(stack[i], k)

\* the source calls that createHeightField calls with the keys ks lead to
sourceCalls(i, ks) == {[layer |-> i, key |-> k] : k \in {x \in ks : sourceCalled(i, x)}}

\* ElevationLayer::createHeightField as its caller sees it: INVALID for a
\* disabled layer, for a canceled token and for a key outside the legal
\* range, else the layer's tile for the key where it has one
layerCreateHeightField(i, k, progress) ==
    IF ~sourceCalled(i, k) THEN INVALID
    ELSE IF progress /\ token THEN INVALID
    ELSE IF k.lod \in stack[i].fetchable THEN Tile(i, k.lod)
    ELSE INVALID

\* lines 939-951 with one createHeightField call and no walk
fetchWithFallback_NoWalk(i, k, n) ==
    IF keyValid(k) /\ isKeyInLegalRange(stack[i], k)
    THEN LET layerHF == layerCreateHeightField(i, k, TRUE)
         IN IF layerHF # INVALID
            THEN [layerHF |-> layerHF, actualKey |-> k, calls |-> n + 1,
                  keys |-> {k}]
            ELSE [layerHF |-> INVALID, actualKey |-> createParentKey(k),
                  calls |-> n + 1, keys |-> {k}]
    ELSE [layerHF |-> INVALID, actualKey |-> k, calls |-> n, keys |-> {}]

\* lines 939-951: walk up the ancestors until a tile is there; gives the tile,
\* the final *actualKey, the number of createHeightField calls made on top
\* of n and the keys they were made with
RECURSIVE fetchWithFallback(_, _, _)
fetchWithFallback(i, k, n) ==
    IF keyValid(k) /\ isKeyInLegalRange(stack[i], k)
    THEN LET layerHF == layerCreateHeightField(i, k, TRUE)
         IN IF layerHF # INVALID
            THEN [layerHF |-> layerHF, actualKey |-> k, calls |-> n + 1,
                  keys |-> {k}]
            ELSE [fetchWithFallback(i, createParentKey(k), n + 1)
                    EXCEPT !.keys = @ \cup {k}]
    ELSE [layerHF |-> INVALID, actualKey |-> k, calls |-> n, keys |-> {}]

\* line 987, and line 1055
isData_Always(elevation) == TRUE

isData(elevation) == elevation # NO_DATA_VALUE

\* line 1029
suppressed_Never(resolvedIndex, offsetIndex) == FALSE

suppressed(resolvedIndex, offsetIndex) ==
    resolvedIndex >= 0 /\ offsetIndex < resolvedIndex

\* the value a short holds after the unsigned int u (taken modulo 2^32, of
\* which the low 16 bits are kept) is stored in it
toShort(u) ==
    LET v == u % 65536 IN IF v >= 32768 THEN v - 65536 ELSE v

\* lines 1001 and 1064 with the two levels swapped
lodDelta_Swapped(keyLOD, lod) == toShort(lod - keyLOD)

\* lines 1001 and 1064: key.getLOD() - actualKey->getLOD(), a difference of
\* unsigned ints stored in an element of the ShortArray
lodDelta(keyLOD, lod) == toShort(keyLOD - lod)

\* the tile is the layer's tile for the mapped key, not one of an ancestor
notAncestorData(tile) == tile.lod = mappedKey(tile.layer).lod

\* lines 1013-1022
clearHeightFields(S) ==
    IF S.numHeightFieldsInCache >= maxHeightFields
    THEN [S EXCEPT !.heightFields = [k \in DOMAIN S.heightFields |-> INVALID],
                   !.heightFallback = [k \in DOMAIN S.heightFallback |-> FALSE],
                   !.numHeightFieldsInCache = 0]
    ELSE S

\* lines 971-1009, for contender i holding tile S.heightFields[i]
sampleContender(S, i, c, r, actualKey) ==
    LET layerHF == S.heightFields[i]
        S1 == IF ~S.heightFallback[i] THEN [S EXCEPT !.realData = TRUE] ELSE S
        elevation == elevationOf(layerHF, c, r)
    IN IF getElevation(layerHF, c, r)
       THEN IF isData(elevation)
            THEN [S1 EXCEPT !.resolvedIndex = sel.contenders[i].index,
                            !.height = elevation,
                            !.delta = IF out.deltaLOD # << >>
                                      THEN lodDelta(requestKey.lod, actualKey.lod)
                                      ELSE @,
                            !.real = notAncestorData(layerHF),
                            !.tileLOD = layerHF.lod]
            ELSE [S1 EXCEPT !.nodataCount = @ + 1]
       ELSE S1

\* lines 924-1022: the body of the contender loop for contender i
contenderBody(S, i, c, r) ==
    LET contenderKey == sel.contenders[i].key
    IN IF S.heightFailed[i] THEN S
       ELSE IF S.heightFields[i] # INVALID
       THEN clearHeightFields(sampleContender(S, i, c, r, contenderKey))
       ELSE LET f == fetchWithFallback(sel.contenders[i].index, contenderKey, 0)
            IN IF f.layerHF # INVALID
               THEN clearHeightFields(sampleContender(
                        [S EXCEPT !.heightFields[i] = f.layerHF,
                                  !.heightFallback[i] = (f.actualKey # contenderKey),
                                  !.numHeightFieldsInCache = @ + 1,
                                  !.resolves = @ + f.calls,
                                  !.source = @ \cup sourceCalls(
                                      sel.contenders[i].index, f.keys),
                                  !.walk[i] = [calls |-> f.calls,
                                               actualKey |-> f.actualKey]],
                        i, c, r, f.actualKey))
               ELSE [S EXCEPT !.heightFailed[i] = TRUE,
                              !.resolves = @ + f.calls,
                              !.source = @ \cup sourceCalls(
                                  sel.contenders[i].index, f.keys),
                              !.walk[i] = [calls |-> f.calls,
                                           actualKey |-> f.actualKey]]

\* line 922 with the loop left after its first round
contenderLoop_FirstOnly(S, i, c, r) ==
    IF i <= Len(sel.contenders) /\ S.resolvedIndex < 0
    THEN contenderBody(S, i, c, r)
    ELSE S

\* line 922: contenders i, i+1, ... until one resolves the sample
RECURSIVE contenderLoop(_, _, _, _)
contenderLoop(S, i, c, r) ==
    IF i <= Len(sel.contenders) /\ S.resolvedIndex < 0
    THEN contenderLoop(contenderBody(S, i, c, r), i + 1, c, r)
    ELSE S

\* line 1057 with an assignment in place of +=
accumulate_Replace(height, elevation) == elevation

\* line 1057: hf->getHeight(c, r) += elevation
accumulate(height, elevation) == height + elevation

\* lines 1027-1066: the body of the offset loop for offset i
offsetBody(S, i, c, r) ==
    LET contenderKey == sel.offsets[i].key
        layerHF == IF S.offsetFields[i] # INVALID THEN S.offsetFields[i]
                   ELSE layerCreateHeightField(sel.offsets[i].index, contenderKey, TRUE)
        calls == IF S.offsetFields[i] # INVALID THEN 0 ELSE 1
        asked == IF S.offsetFields[i] # INVALID THEN {}
                 ELSE sourceCalls(sel.offsets[i].index, {contenderKey})
    IN IF suppressed(S.resolvedIndex, sel.offsets[i].index) THEN S
       ELSE IF S.offsetFailed[i] THEN S
       ELSE IF layerHF = INVALID
       THEN [S EXCEPT !.offsetFailed[i] = TRUE, !.resolves = @ + calls,
                      !.source = @ \cup asked]
       ELSE LET S1 == [S EXCEPT !.offsetFields[i] = layerHF,
                                !.resolves = @ + calls,
                                !.source = @ \cup asked,
                                !.realData = TRUE]
                elevation == elevationOf(layerHF, c, r)
            IN IF getElevation(layerHF, c, r) /\ isData(elevation)
               THEN [S1 EXCEPT !.height = accumulate(@, elevation),
                               !.delta = IF out.deltaLOD # << >>
                                         THEN lodDelta(requestKey.lod, contenderKey.lod)
                                         ELSE @,
                               !.real = @ \/ notAncestorData(layerHF),
                               !.applied = @ \cup {sel.offsets[i].index}]
               ELSE S1

\* line 1025 with the loop run upwards: offsets 1, ..., i, highest priority
\* first
RECURSIVE offsetLoop_HighestFirst(_, _, _, _)
offsetLoop_HighestFirst(S, i, c, r) ==
    IF i >= 1 THEN offsetBody(offsetLoop_HighestFirst(S, i - 1, c, r), i, c, r)
    ELSE S

\* line 1025: offsets i, i-1, ..., lowest priority first
RECURSIVE offsetLoop(_, _, _, _)
offsetLoop(S, i, c, r) ==
    IF i >= 1 THEN offsetLoop(offsetBody(S, i, c, r), i - 1, c, r) ELSE S

\* HeightFieldUtils::resolveInvalidHeights(hf, extent, NO_DATA_VALUE, 0L):
\* a no-data sample takes the height of the nearest sample that has one, and
\* height 0 when no sample has one
resolveInvalidHeights(hf) ==
    LET ok == {q \in DOMAIN hf : hf[q] # NO_DATA_VALUE}
        dist(p, q) == IF p >= q THEN p - q ELSE q - p
        nearest(p) == CHOOSE q \in ok :
                         \A q2 \in ok : \/ dist(p, q) < dist(p, q2)
                                        \/ dist(p, q) = dist(p, q2) /\ q <= q2
    IN [p \in DOMAIN hf |->
           IF hf[p] # NO_DATA_VALUE THEN hf[p]
           ELSE IF ok = {} THEN 0
           ELSE hf[nearest(p)]]

\* lines 883-884 with the comparison dropped
sameSize_Always(i) == TRUE

\* lines 883-884: the tile has the columns and rows of the output
sameSize(i) == tileColumns(i) = NumColumns /\ tileRows(i) = NumRows

\* lines 873-898: a single contender and no offsets; the tile is copied when
\* it has the dimensions of the output
fastPath ==
    /\ pos.pc = "fast"
    /\ IF Len(sel.contenders) = 1 /\ sel.offsets = << >>
       THEN LET i == sel.contenders[1].index
                layerHF == layerCreateHeightField(i, sel.contenders[1].key, FALSE)
            IN IF layerHF # INVALID /\ sameSize(i)
               THEN /\ out' = [out EXCEPT
                                 !.hf = [p \in 1..total |->
                                           elevationOf(layerHF, columnOf(p), rowOf(p))],
                                 !.realData = TRUE]
                    /\ trace' = [trace EXCEPT
                                   !.resolves = @ + 1,
                                   !.source = @ \cup sourceCalls(i,
                                                 {sel.contenders[1].key}),
                                   !.real = [p \in 1..total |->
                                               notAncestorData(layerHF)]]
                    /\ pos' = [pos EXCEPT !.pc = "normals"]
               ELSE /\ trace' = [trace EXCEPT
                                   !.resolves = @ + 1,
                                   !.source = @ \cup sourceCalls(i,
                                                 {sel.contenders[1].key})]
                    /\ pos' = [pos EXCEPT !.pc = "column", !.c = 0]
                    /\ UNCHANGED out
       ELSE /\ pos' = [pos EXCEPT !.pc = "column", !.c = 0]
            /\ UNCHANGED <<out, trace>>
    /\ UNCHANGED <<stack, sel, ws, token>>
    /\ UNCHANGED rvars

\* lines 903-911: the head of the column loop, where the token is polled
column ==
    /\ pos.pc = "column"
    /\ pos' = IF pos.c >= NumColumns THEN [pos EXCEPT !.pc = "normals"]
              ELSE IF token THEN returnFrom(FALSE)
              ELSE [pos EXCEPT !.pc = "pixel", !.r = 0]
    /\ UNCHANGED <<stack, sel, ws, out, token, trace>>
    /\ UNCHANGED rvars

\* lines 913-1068: one sample (c, r) of the output
pixel ==
    /\ pos.pc = "pixel"
    /\ LET c == pos.c
           r == pos.r
           p == index(c, r)
           S0 == [heightFields |-> ws.heightFields,
                  offsetFields |-> ws.offsetFields,
                  heightFallback |-> ws.heightFallback,
                  heightFailed |-> ws.heightFailed,
                  offsetFailed |-> ws.offsetFailed,
                  numHeightFieldsInCache |-> ws.numHeightFieldsInCache,
                  nodataCount |-> ws.nodataCount,
                  realData |-> out.realData,
                  height |-> out.hf[p],
                  delta |-> IF out.deltaLOD # << >> THEN out.deltaLOD[p] ELSE 0,
                  resolvedIndex |-> -1,
                  resolves |-> trace.resolves,
                  source |-> trace.source,
                  real |-> FALSE,
                  applied |-> {},
                  tileLOD |-> -1,
                  walk |-> trace.walk]
           S1 == contenderLoop(S0, 1, c, r)
           S2 == offsetLoop(S1, Len(sel.offsets), c, r)
       IN /\ ws' = [heightFields |-> S2.heightFields,
                    offsetFields |-> S2.offsetFields,
                    heightFallback |-> S2.heightFallback,
                    heightFailed |-> S2.heightFailed,
                    offsetFailed |-> S2.offsetFailed,
                    numHeightFieldsInCache |-> S2.numHeightFieldsInCache,
                    nodataCount |-> S2.nodataCount]
          /\ out' = [out EXCEPT !.hf[p] = S2.height,
                                !.deltaLOD = IF out.deltaLOD # << >>
                                             THEN [@ EXCEPT ![p] = S2.delta]
                                             ELSE @,
                                !.realData = S2.realData]
          /\ trace' = [trace EXCEPT
                         !.resolves = S2.resolves,
                         !.source = S2.source,
                         !.resolvedIndex[p] = S1.resolvedIndex,
                         !.base[p] = [height |-> S1.height, delta |-> S1.delta],
                         !.real[p] = S2.real,
                         !.applied[p] = S2.applied,
                         !.tileLOD[p] = S1.tileLOD,
                         !.walk = S2.walk]
    /\ pos' = IF pos.r + 1 < NumRows THEN [pos EXCEPT !.r = @ + 1]
              ELSE [pos EXCEPT !.pc = "column", !.c = @ + 1]
    /\ UNCHANGED <<stack, sel, token>>
    /\ UNCHANGED rvars

\* lines 1072-1081
normals ==
    /\ pos.pc = "normals"
    /\ IF out.normalMap # "null"
       THEN IF token
            THEN /\ pos' = returnFrom(FALSE)
                 /\ UNCHANGED out
            ELSE /\ out' = [out EXCEPT !.normalMap = "written"]
                 /\ pos' = [pos EXCEPT !.pc = "finish"]
       ELSE /\ pos' = [pos EXCEPT !.pc = "finish"]
            /\ UNCHANGED out
    /\ UNCHANGED <<stack, sel, ws, token, trace>>
    /\ UNCHANGED rvars

\* lines 1104-1113
finish ==
    /\ pos.pc = "finish"
    /\ out' = [out EXCEPT !.hf = resolveInvalidHeights(@)]
    /\ pos' = IF token THEN returnFrom(FALSE) ELSE returnFrom(out.realData)
    /\ trace' = [trace EXCEPT !.filled = TRUE]
    /\ UNCHANGED <<stack, sel, ws, token>>
    /\ UNCHANGED rvars

\* another thread cancels the ProgressCallback of the call
cancelToken ==
    /\ pos.pc # "done"
    /\ ~token
    /\ token' = TRUE
    /\ trace' = [trace EXCEPT !.cancelPC = pos.pc]
    /\ UNCHANGED <<stack, sel, ws, out, pos>>
    /\ UNCHANGED rvars

----------------------------------------------------------------------------
(* ElevationLayer::assembleHeightField, lines 170-313 *)

\* line 258: the bounds of the requested key's extent along x, in a unit
\* in which every sample position of the output is a whole number
minx == 0
maxx == 2 * (NumColumns - 1)

\* the extents of the native tiles along x: one or the other half of the
\* requested extent, or all of it
extentBounds(e) ==
    CASE e = "left"  -> [minx |-> minx, maxx |-> maxx \div 2]
      [] e = "right" -> [minx |-> (maxx \div 2) + 1, maxx |-> maxx]
      [] OTHER       -> [minx |-> minx, maxx |-> maxx]

\* a native tile of the layer's own profile and what the source has for it
NativeTile(resolution, columns, extent) ==
    [resolution |-> resolution, columns |-> columns, rows |-> NumRows,
     extent |-> extent, nodata |-> FALSE, legal |-> TRUE, valid |-> TRUE,
     lod |-> 0]

FineTile == NativeTile(1, 2 * NumColumns - 1, "full")

CoarseTile == NativeTile(2, NumColumns, "full")

TileKinds ==
    {FineTile,
     CoarseTile,
     [FineTile EXCEPT !.extent = "left"],
     [FineTile EXCEPT !.extent = "right"],
     [CoarseTile EXCEPT !.extent = "right"],
     [FineTile EXCEPT !.nodata = TRUE],
     [CoarseTile EXCEPT !.legal = FALSE],
     [CoarseTile EXCEPT !.valid = FALSE]}

\* the native tiles that intersect the requested extent at one level of the
\* layer's profile
IntersectingTiles == UNION {[1..n -> TileKinds] : n \in 0..MaxTiles}

\* the same for a requested key of LOD 0, whose extent is large
WalkTiles == UNION {[1..n -> {FineTile, CoarseTile}] : n \in 0..MaxTiles}

\* a null out_hf or out_normalMap
NoGrid == << >>

\* the up-facing normal
Up == <<0, 0, 1>>

\* the grid of w columns and h rows with v everywhere
Grid(w, h, v) == [p \in (0..(w - 1)) \X (0..(h - 1)) |-> v]

\* the locals and outputs when assembleHeightField is entered
NoAssembly ==
    [pc |-> "idle", keyLOD |-> 0, equivalentLOD |-> 0, dataLevels |-> {},
     tiles |-> << >>, intersectionLOD |-> 0, numTilesThatMayHaveData |-> 0,
     intersectingTiles |-> << >>, i |-> 1, heightFields |-> << >>,
     width |-> 0, height |-> 0, out_hf |-> NoGrid, out_normalMap |-> NoGrid,
     c |-> 0, r |-> 0, canceled |-> FALSE,
     visited |-> << >>, implCalls |-> 0, implTiles |-> {},
     fetchedCanceled |-> FALSE]

AIdle == asm = NoAssembly

\* a key of LOD 1 with any tiles, or a key of LOD 0 with a layer whose
\* profile has the levels 0..equivalentLOD and data at some of them
AInit ==
    \/ \E ts \in IntersectingTiles :
          asm = [NoAssembly EXCEPT !.pc = "intersect", !.keyLOD = 1,
                                   !.tiles = ts]
    \/ \E ts \in WalkTiles, e \in 0..MaxLOD, d \in SUBSET (0..MaxLOD) :
          asm = [NoAssembly EXCEPT !.pc = "intersect", !.keyLOD = 0,
                                   !.tiles = ts, !.equivalentLOD = e,
                                   !.dataLevels = d]

\* Profile::getIntersectingTiles: the tiles of level lod that intersect the
\* requested extent
getIntersectingTiles(lod) ==
    [i \in 1..Len(asm.tiles) |-> [asm.tiles[i] EXCEPT !.lod = lod]]

\* TileLayer::mayHaveData(layerKey)
mayHaveData(layerKey) == layerKey.lod \in asm.dataLevels

\* lines 181-194: the tiles of the key, or the start of the walk at the
\* equivalent LOD
intersect ==
    /\ asm.pc = "intersect"
    /\ asm' = IF asm.keyLOD > 0
              THEN [asm EXCEPT !.intersectingTiles =
                                   getIntersectingTiles(asm.equivalentLOD),
                               !.pc = "collect"]
              ELSE [asm EXCEPT !.numTilesThatMayHaveData = 0,
                               !.intersectionLOD = asm.equivalentLOD,
                               !.pc = "walk"]
    /\ UNCHANGED <<rvars, cvars, hvars, nvars>>

\* line 196 with the test of the LOD made strict
walkOn_AboveZero(numTilesThatMayHaveData, intersectionLOD) ==
    numTilesThatMayHaveData = 0 /\ intersectionLOD > 0

\* line 196: the condition of the while loop
walkOn(numTilesThatMayHaveData, intersectionLOD) ==
    numTilesThatMayHaveData = 0 /\ intersectionLOD >= 0

\* lines 196-210: one round of the while loop, or its end
walkLOD ==
    /\ asm.pc = "walk"
    /\ asm' = IF walkOn(asm.numTilesThatMayHaveData, asm.intersectionLOD)
              THEN LET found == getIntersectingTiles(asm.intersectionLOD)
                   IN [asm EXCEPT
                         !.intersectingTiles = found,
                         !.numTilesThatMayHaveData =
                             @ + Cardinality({i \in 1..Len(found) :
                                                mayHaveData(found[i])}),
                         !.intersectionLOD = @ - 1,
                         !.visited = Append(@, asm.intersectionLOD)]
              ELSE [asm EXCEPT !.pc = "collect"]
    /\ UNCHANGED <<rvars, cvars, hvars, nvars>>

\* line 224 with the test dropped
legalTile_Always(layerKey) == TRUE

\* line 224: isKeyInLegalRange(layerKey)
legalTile(layerKey) == layerKey.legal

\* lines 216-234: one round of the loop over the intersecting tiles, which
\* asks createHeightFieldImplementation for the tile, or the end of the loop
fetchTile ==
    /\ asm.pc = "collect"
    /\ asm' =
         IF asm.i <= Len(asm.intersectingTiles)
         THEN LET layerKey == asm.intersectingTiles[asm.i]
              IN IF legalTile(layerKey)
                 THEN [asm EXCEPT
                         !.heightFields =
                             IF layerKey.valid
                             THEN Append(@, [id |-> asm.i, tile |-> layerKey])
                             ELSE @,
                         !.implCalls = @ + 1,
                         !.implTiles = @ \cup {layerKey},
                         !.fetchedCanceled = @ \/ asm.canceled,
                         !.i = @ + 1]
                 ELSE [asm EXCEPT !.i = @ + 1]
         ELSE [asm EXCEPT !.pc = IF asm.heightFields # << >>
                                 THEN "sort" ELSE "end"]
    /\ UNCHANGED <<rvars, cvars, hvars, nvars>>

\* line 251: the orders std::sort can leave the heightfields in, finest
\* resolution first; the order of equal resolutions is any
sortedByResolution(hfs) ==
    LET n == Len(hfs)
        perms == {f \in [1..n -> 1..n] : \A i, j \in 1..n : i # j => f[i] # f[j]}
    IN {[i \in 1..n |-> hfs[f[i]]] : f \in
           {g \in perms : \A i, j \in 1..n :
                i < j => hfs[g[i]].tile.resolution <= hfs[g[j]].tile.resolution}}

\* lines 241-248: the largest number of columns and of rows
maxColumns(hfs) ==
    CHOOSE w \in {hfs[i].tile.columns : i \in 1..Len(hfs)} :
        \A i \in 1..Len(hfs) : hfs[i].tile.columns <= w

maxRows(hfs) ==
    CHOOSE h \in {hfs[i].tile.rows : i \in 1..Len(hfs)} :
        \A i \in 1..Len(hfs) : hfs[i].tile.rows <= h

\* lines 236-264: size, sort, allocate
sortAndAllocate ==
    /\ asm.pc = "sort"
    /\ \E sorted \in sortedByResolution(asm.heightFields) :
          LET width == maxColumns(asm.heightFields)
              height == maxRows(asm.heightFields)
          IN asm' = [asm EXCEPT !.heightFields = sorted,
                                !.width = width, !.height = height,
                                !.out_hf = Grid(width, height, 0),
                                !.out_normalMap = Grid(width, height, <<0, 0, 0>>),
                                !.c = 0, !.r = 0, !.pc = "sample"]
    /\ UNCHANGED <<rvars, cvars, hvars, nvars>>

\* lines 260, 267: the x coordinate of output column c
xOf(c) == minx + ((maxx - minx) \div (asm.width - 1)) * c

\* whether the point x lies in the extent of the heightfield
contains(h, x) ==
    extentBounds(h.tile.extent).minx <= x /\ x <= extentBounds(h.tile.extent).maxx

\* the elevation and the normal a heightfield has for output sample (c, r)
sampleOf(h, c, r) ==
    IF h.tile.nodata THEN NO_DATA_VALUE ELSE 1000 * h.id + 10 * c + r

normalOf(h, c, r) == <<h.id, c, r>>

\* line 282: GeoHeightField::getElevationAndNormal succeeds for a point in
\* the heightfield's extent, whatever the sample there
getElevationAndNormal(h, x) == contains(h, x)

\* lines 276-288: the first heightfield for which the query succeeds, or 0
firstSucceeding(hfs, x) ==
    LET S == {i \in 1..Len(hfs) : getElevationAndNormal(hfs[i], x)}
    IN IF S = {} THEN 0 ELSE CHOOSE i \in S : \A j \in S : i <= j

\* lines 265-292: one round of the inner loop
samplePixel ==
    /\ asm.pc = "sample"
    /\ LET c == asm.c
           r == asm.r
           k == firstSucceeding(asm.heightFields, xOf(c))
           elevation == IF k = 0 THEN NO_DATA_VALUE
                        ELSE sampleOf(asm.heightFields[k], c, r)
           normal == IF k = 0 THEN Up ELSE normalOf(asm.heightFields[k], c, r)
           lastRow == r + 1 = asm.height
           lastColumn == c + 1 = asm.width
       IN asm' = [asm EXCEPT !.out_hf[<<c, r>>] = elevation,
                             !.out_normalMap[<<c, r>>] = normal,
                             !.r = IF lastRow THEN 0 ELSE r + 1,
                             !.c = IF lastRow THEN c + 1 ELSE c,
                             !.pc = IF lastRow /\ lastColumn
                                    THEN "end" ELSE "sample"]
    /\ UNCHANGED <<rvars, cvars, hvars, nvars>>

\* lines 307-312: a canceled progress clears the outputs
clearIfCanceled ==
    /\ asm.pc = "end"
    /\ asm' = [asm EXCEPT !.out_hf = IF asm.canceled THEN NoGrid ELSE @,
                          !.out_normalMap = IF asm.canceled THEN NoGrid ELSE @,
                          !.pc = "done"]
    /\ UNCHANGED <<rvars, cvars, hvars, nvars>>

\* the caller's progress callback is canceled while the assembly runs
cancelProgress ==
    /\ asm.pc \notin {"idle", "done"}
    /\ ~asm.canceled
    /\ asm' = [asm EXCEPT !.canceled = TRUE]
    /\ UNCHANGED <<rvars, cvars, hvars, nvars>>

----------------------------------------------------------------------------
(* populateHeightFieldAndNormalMap on a long vector: the grids it holds, *)
(* lines 843-852, 928-957, 1012-1048. The layers are counted, not told   *)
(* apart: which contender or offset an iteration is at depends on the    *)
(* data of the layers above it.                                          *)

HIdle ==
    held = [pc |-> "idle", contenders |-> 0, offsets |-> 0,
            heightFields |-> 0, offsetFields |-> 0,
            heightFailed |-> 0, offsetFailed |-> 0,
            numHeightFieldsInCache |-> 0]

\* lines 844-852: nothing is held when the sampling loop starts
HInit ==
    \E nc \in 0..MaxContenders, no \in 0..MaxOffsets :
        held = [pc |-> "loop", contenders |-> nc, offsets |-> no,
                heightFields |-> 0, offsetFields |-> 0,
                heightFailed |-> 0, offsetFailed |-> 0,
                numHeightFieldsInCache |-> 0]

\* lines 935-957: an iteration of the contender loop finds its contender
\* without a heightfield and the walk gets one
holdContender ==
    /\ held.pc = "loop"
    /\ held.heightFields + held.heightFailed < held.contenders
    /\ held' = [held EXCEPT !.heightFields = @ + 1,
                            !.numHeightFieldsInCache = @ + 1,
                            !.pc = "sampled"]
    /\ UNCHANGED <<rvars, cvars, avars, nvars>>

\* lines 958-969: the walk gets none
failContender ==
    /\ held.pc = "loop"
    /\ held.heightFields + held.heightFailed < held.contenders
    /\ held' = [held EXCEPT !.heightFailed = @ + 1]
    /\ UNCHANGED <<rvars, cvars, avars, nvars>>

\* lines 928-934, 971-1009: the iteration finds the heightfield held
sampleHeld ==
    /\ held.pc = "loop"
    /\ held.heightFields > 0
    /\ held' = [held EXCEPT !.pc = "sampled"]
    /\ UNCHANGED <<rvars, cvars, avars, nvars>>

\* lines 1012-1022: the end of the iteration
clearCache ==
    /\ held.pc = "sampled"
    /\ held' = IF held.numHeightFieldsInCache >= maxHeightFields
               THEN [held EXCEPT !.heightFields = 0,
                                 !.numHeightFieldsInCache = 0,
                                 !.pc = "loop"]
               ELSE [held EXCEPT !.pc = "loop"]
    /\ UNCHANGED <<rvars, cvars, avars, nvars>>

\* lines 1037-1048: an iteration of the offset loop finds its offset without
\* a heightfield and createHeightField gives one, or none
holdOffset ==
    /\ held.pc = "loop"
    /\ held.offsetFields + held.offsetFailed < held.offsets
    /\ \E ok \in BOOLEAN :
          held' = IF ok THEN [held EXCEPT !.offsetFields = @ + 1]
                  ELSE [held EXCEPT !.offsetFailed = @ + 1]
    /\ UNCHANGED <<rvars, cvars, avars, nvars>>

----------------------------------------------------------------------------
(* createNormalMap, lines 634-691, as populateHeightFieldAndNormalMap calls *)
(* it at line 1081 with the heightfield and the deltaLOD array it filled   *)

\* lines 1001 and 1064: where the sampling loop records the delta of sample
\* (column c, row r) of a grid of numColumns columns
writeIndex(c, r, numColumns) == r * numColumns + c

\* line 645: where createNormalMap reads the delta of sample (s, t) of a
\* grid of w columns and h rows
readIndex(s, t, w, h) == t * h + s

\* the deltaLOD arrays of a w x h grid that carry the delta d at one sample
\* and 0 elsewhere, or d at every sample
deltaLODs(w, h) ==
    {[p \in 1..(w * h) |-> d] : d \in 0..MaxDelta}
    \cup {[p \in 1..(w * h) |-> IF p = writeIndex(c, r, w) + 1 THEN d ELSE 0] :
            c \in 0..(w - 1), r \in 0..(h - 1), d \in 1..MaxDelta}

\* lines 650-661: the samples whose normals are blended into the normal of
\* sample (s, t)
corners(s, t, step, w, h) ==
    IF step = 1 THEN [s0 |-> s, s1 |-> s, t0 |-> t, t1 |-> t]
    ELSE LET minimum(a, b) == IF a < b THEN a ELSE b
             maximum(a, b) == IF a > b THEN a ELSE b
             s0 == maximum(s - (s % step), 0)
             s1 == IF s % step = 0 THEN s0 ELSE minimum(s0 + step, w - 1)
             t0 == maximum(t - (t % step), 0)
             t1 == IF t % step = 0 THEN t0 ELSE minimum(t0 + step, h - 1)
         IN [s0 |-> s0, s1 |-> s1, t0 |-> t0, t1 |-> t1]

\* createNormalMap is not running
NIdle ==
    nmap = [pc |-> "idle", w |-> 0, h |-> 0, deltaLOD |-> << >>,
            s |-> 0, t |-> 0, reads |-> {}, normalMap |-> {}]

\* lines 636-641: the call starts at row 0, column 0 of a grid of any shape
NInit ==
    \E w \in 2..MaxColumns, h \in 2..MaxRows :
        \E deltaLOD \in deltaLODs(w, h) :
            nmap = [pc |-> "loop", w |-> w, h |-> h, deltaLOD |-> deltaLOD,
                    s |-> 0, t |-> 0, reads |-> {}, normalMap |-> {}]

\* lines 641-689: one round of the inner loop. A read past the end of the
\* array is undefined: it gives whatever lies there, or the call faults
normalPixel ==
    /\ nmap.pc = "loop"
    /\ LET s == nmap.s
           t == nmap.t
           w == nmap.w
           h == nmap.h
           i == readIndex(s, t, w, h)
           inside == i < Len(nmap.deltaLOD)
           next == IF s + 1 < w THEN [s |-> s + 1, t |-> t, pc |-> "loop"]
                   ELSE IF t + 1 < h THEN [s |-> 0, t |-> t + 1, pc |-> "loop"]
                   ELSE [s |-> s, t |-> t, pc |-> "done"]
       IN \/ \E delta \in (IF inside THEN {nmap.deltaLOD[i + 1]} ELSE 0..MaxDelta) :
                nmap' = [nmap EXCEPT
                           !.reads = @ \cup {[s |-> s, t |-> t, index |-> i,
                                              delta |-> delta]},
                           !.normalMap = @ \cup
                               {[s |-> s, t |-> t,
                                 from |-> corners(s, t, 2 ^ delta, w, h)]},
                           !.s = next.s, !.t = next.t, !.pc = next.pc]
          \/ /\ ~inside
             /\ nmap' = [nmap EXCEPT
                           !.reads = @ \cup {[s |-> s, t |-> t, index |-> i,
                                              delta |-> 0]},
                           !.pc = "fault"]
    /\ UNCHANGED <<rvars, cvars, avars, hvars>>

----------------------------------------------------------------------------
(* The specifications *)

\* createHeightField calls arrive one after the other, on one thread, for
\* one key
Init == RInit /\ CIdle /\ AIdle /\ HIdle /\ NIdle

Next ==
    \/ Call(1, {Key1}) /\ UNCHANGED <<cvars, avars, hvars, nvars>>
    \/ Step(1) /\ UNCHANGED <<cvars, avars, hvars, nvars>>
    \/ Cancel(1) /\ UNCHANGED <<cvars, avars, hvars, nvars>>
    \/ Tick /\ UNCHANGED <<cvars, avars, hvars, nvars>>

Spec == Init /\ [][Next]_vars

\* two threads call createHeightField concurrently, for any keys
ConcInit ==
    /\ RInit
    /\ CIdle
    /\ AIdle
    /\ HIdle
    /\ NIdle
    /\ layer \in {PlainLayer,
                  [PlainLayer EXCEPT !.memCache = FALSE],
                  [PlainLayer EXCEPT !.hasProfile = FALSE]}
    /\ cacheBin \in {<< >>, [k \in {cacheKey(Key1)} |->
                                [hf |-> StaleHF, lastModifiedTime |-> 0]]}

ConcNext ==
    \/ \E t \in Threads : Call(t, Keys) /\ UNCHANGED <<cvars, avars, hvars, nvars>>
    \/ \E t \in Threads : Step(t) /\ UNCHANGED <<cvars, avars, hvars, nvars>>
    \/ \E t \in Threads : Cancel(t) /\ UNCHANGED <<cvars, avars, hvars, nvars>>

SpecConc == ConcInit /\ [][ConcNext]_vars

\* the resolve layer at rest, while the compositor is looked at on its own
RIdle ==
    /\ layer = PlainLayer
    /\ memCache = << >>
    /\ cacheBin = << >>
    /\ now = 0
    /\ th = [t \in Threads |-> Idle]
    /\ canceled = [t \in Threads |-> FALSE]
    /\ last = NoCall
    /\ numCalls = 0

\* one populateHeightFieldAndNormalMap call on any vector of layers, with a
\* token that can be canceled at any moment
CompInit == RIdle /\ CInit /\ AIdle /\ HIdle /\ NIdle

CompNext ==
    \/ selectLayers /\ UNCHANGED <<avars, hvars, nvars>>
    \/ fastPath /\ UNCHANGED <<avars, hvars, nvars>>
    \/ column /\ UNCHANGED <<avars, hvars, nvars>>
    \/ pixel /\ UNCHANGED <<avars, hvars, nvars>>
    \/ normals /\ UNCHANGED <<avars, hvars, nvars>>
    \/ finish /\ UNCHANGED <<avars, hvars, nvars>>
    \/ cancelToken /\ UNCHANGED <<avars, hvars, nvars>>

SpecComp == CompInit /\ [][CompNext]_vars

\* one assembleHeightField call on any vector of intersecting native tiles,
\* with a progress callback that can be canceled at any moment
AsmInit == RIdle /\ CIdle /\ AInit /\ HIdle /\ NIdle

AsmNext ==
    \/ intersect
    \/ walkLOD
    \/ fetchTile
    \/ sortAndAllocate
    \/ samplePixel
    \/ clearIfCanceled
    \/ cancelProgress

SpecAsm == AsmInit /\ [][AsmNext]_vars

\* the sampling loop of one populateHeightFieldAndNormalMap call on a
\* vector of any number of contenders and offsets
HeldInit == RIdle /\ CIdle /\ AIdle /\ HInit /\ NIdle

HeldNext ==
    \/ holdContender
    \/ failContender
    \/ sampleHeld
    \/ clearCache
    \/ holdOffset

SpecHeld == HeldInit /\ [][HeldNext]_vars

\* one createNormalMap call on a grid of any shape
NormalInit == RIdle /\ CIdle /\ AIdle /\ HIdle /\ NInit

NormalNext == normalPixel

SpecNormal == NormalInit /\ [][NormalNext]_vars

\* any one of the three ways to the source backend: createHeightField calls
\* in sequence, one populateHeightFieldAndNormalMap call, or one
\* assembleHeightField call
SourceInit == Init \/ CompInit \/ AsmInit

SourceNext ==
    \/ CIdle /\ AIdle /\ Next
    \/ CompNext
    \/ AsmNext

SpecSource == SourceInit /\ [][SourceNext]_vars

----------------------------------------------------------------------------
(* Properties of createHeightField *)

\* the heightfield a successful source fetch for key ends up as (lines 473-489)
Fresh(key) ==
    normalizeNoDataValues(
        IF layer.vdatumDiffers THEN VerticalDatumTransform(SourceHF(key))
        ELSE SourceHF(key))

\* the payloads the persistent tier held before the first call
InitialPayloads == {e.hf : e \in InitialEntries}

\* thread t is inside a call that has fetched from the source backend
Fetched(t) == th[t].pc # "idle" /\ th[t].fetch # "none"

\* C1: at-most-one-producer. When two createHeightField calls for the same
\* key of a layer with a memory cache run at the same time, neither of them
\* canceled, at most one of them has fetched the key from the source backend.
C1_AtMostOneProducer ==
    \A t1 \in Threads, t2 \in Threads :
        /\ t1 # t2
        /\ layer.memCache
        /\ th[t1].pc # "idle" /\ th[t2].pc # "idle"
        /\ th[t1].key = th[t2].key
        /\ ~canceled[t1] /\ ~canceled[t2]
        => ~(th[t1].fetch = "ok" /\ th[t2].fetch = "ok")

\* C3: expired data is a last resort. A call that returns a heightfield read
\* from a persistent entry that is older than max_age has, in that same call,
\* attempted a source fetch that yielded no valid heightfield.
C3_ExpiredIsLastResort ==
    \A t \in Threads :
        /\ th[t].pc = "return"
        /\ valid(th[t].result)
        /\ th[t].result \in InitialPayloads
        /\ cacheKey(th[t].key) \in DOMAIN cacheBin
        /\ cacheBin[cacheKey(th[t].key)].hf = th[t].result
        /\ isExpired(cacheBin[cacheKey(th[t].key)].lastModifiedTime)
        => th[t].fetch \in {"failed", "illegal"}

\* C4: when the persistent entry of the key is expired and the source fetch
\* of the same call yields a valid heightfield, with a writable policy and no
\* cancellation, the call returns the fresh heightfield and the persistent
\* entry of the key holds it.
C4_FreshReplacesExpired ==
    \A t \in Threads :
        /\ th[t].pc = "return"
        /\ th[t].expired
        /\ th[t].fetch = "ok"
        /\ layer.cachePolicy.writable
        /\ ~canceled[t]
        => /\ th[t].result = Fresh(th[t].key)
           /\ cacheKey(th[t].key) \in DOMAIN cacheBin
           /\ cacheBin[cacheKey(th[t].key)].hf = Fresh(th[t].key)
           /\ cacheBin[cacheKey(th[t].key)].lastModifiedTime >= th[t].started

\* a call that found an expired, valid entry, fetched successfully and returns
C4_Witness ==
    \E t \in Threads :
        /\ th[t].pc = "return"
        /\ th[t].expired
        /\ th[t].cachedHF = StaleHF
        /\ th[t].fetch = "ok"
        /\ layer.cachePolicy.writable
        /\ ~canceled[t]
        /\ th[t].progress

\* C10: every heightfield createHeightField returns as valid passes
\* validateHeightField.
C10_ReturnedIsValidated ==
    \A t \in Threads :
        th[t].pc = "return" /\ valid(th[t].result)
        => validateHeightField(th[t].result)

\* thread t is about to return from a call that directly follows a completed
\* call for the same key, and neither of the two calls was canceled
SecondCall(t) ==
    /\ th[t].pc = "return"
    /\ last # NoCall
    /\ last.key = th[t].key
    /\ ~last.canceled
    /\ ~canceled[t]

C2_CanceledResolveWritesNothing ==
    \A t \in Threads :
        th[t].pc = "return" /\ canceled[t] /\ ~valid(th[t].result)
        => ~th[t].wroteCache /\ ~th[t].wroteMemCache

\* C11: a grid that a call wrote to the memory tier passes
\* validateHeightField, a call writes the persistent tier only with a grid
\* the source produced, and a call whose source fetch failed or produced an
\* illegal grid has written neither tier.
C11_NoCachePoisoning ==
    \A t \in Threads :
        th[t].pc = "return" =>
            /\ th[t].wroteMemCache => validateHeightField(th[t].result)
            /\ th[t].wroteCache => th[t].fetch = "ok"
            /\ th[t].fetch \in {"failed", "illegal"} =>
                   ~th[t].wroteCache /\ ~th[t].wroteMemCache

\* C12: a call that finds the layer disabled or in error returns invalid in
\* its first step, without a read of either tier, a source call or a write.
C12_UnavailableReturnsAtOnce ==
    [][\A t \in Threads :
          (/\ th[t].pc = "createHeightField"
           /\ (layer.statusError \/ ~layer.enabled)
           /\ th'[t] # th[t]) =>
              /\ th'[t].pc = "return"
              /\ th'[t].result = NullHF
              /\ th'[t].fetch = "none"
              /\ ~th'[t].readCache /\ ~th'[t].fromMemCache
              /\ memCache' = memCache
              /\ cacheBin' = cacheBin]_vars

\* a call returned from a layer that was disabled when it started, while the
\* persistent tier holds a valid, unexpired entry for the key
C12_Witness ==
    /\ th[1].pc = "return"
    /\ ~layer.enabled /\ layer.hasProfile
    /\ th[1].result = NullHF
    /\ cacheKey(th[1].key) \in DOMAIN cacheBin
    /\ validateHeightField(cacheBin[cacheKey(th[1].key)].hf)
    /\ ~isExpired(cacheBin[cacheKey(th[1].key)].lastModifiedTime)

\* C13: under a cache-only policy no call reaches the source, and a call
\* returns a grid only from a memory-tier hit or from a valid, unexpired
\* persistent entry.
C13_CacheOnlyNeverFetches ==
    \A t \in Threads :
        layer.cachePolicy.cacheOnly =>
            /\ th[t].fetch = "none"
            /\ th[t].pc \notin {"create", "cancel1", "post"}
            /\ (th[t].pc = "return" /\ valid(th[t].result)) =>
                   \/ th[t].fromMemCache
                   \/ /\ cacheKey(th[t].key) \in DOMAIN cacheBin
                      /\ th[t].result = cacheBin[cacheKey(th[t].key)].hf
                      /\ validateHeightField(th[t].result)
                      /\ ~isExpired(cacheBin[cacheKey(th[t].key)].lastModifiedTime)

\* a cache-only call returned invalid although the persistent tier holds a
\* valid entry: the entry is expired
C13_Witness ==
    /\ layer.cachePolicy.cacheOnly /\ layer.enabled
    /\ th[1].pc = "return" /\ ~valid(th[1].result)
    /\ th[1].readCache /\ th[1].expired
    /\ validateHeightField(th[1].cachedHF)

\* the persistent tier holds a valid, expired entry for the key of thread t
\* and the policy lets the layer read it
expiredEntry(t) ==
    /\ layer.cacheBin /\ layer.cachePolicy.readable
    /\ cacheKey(th[t].key) \in DOMAIN cacheBin
    /\ validateHeightField(cacheBin[cacheKey(th[t].key)].hf)
    /\ isExpired(cacheBin[cacheKey(th[t].key)].lastModifiedTime)

\* C14 as stated: a call on an enabled layer that is not canceled and got no
\* fresh grid returns the valid, expired persistent entry, whatever the
\* policy and the key.
C14_ExpiredReturned ==
    \A t \in Threads :
        (/\ th[t].pc = "return"
         /\ layer.enabled /\ ~layer.statusError
         /\ ~canceled[t]
         /\ th[t].fetch # "ok"
         /\ expiredEntry(t)) =>
            th[t].result = cacheBin[cacheKey(th[t].key)].hf

\* C14 amended: the same, for a call that missed the memory tier, under a
\* policy that is not cache-only, for a key in the legal range of a layer
\* with a profile.
C14_ExpiredReturnedAfterFetch ==
    \A t \in Threads :
        (/\ th[t].pc = "return"
         /\ layer.enabled /\ ~layer.statusError /\ layer.hasProfile
         /\ ~canceled[t]
         /\ th[t].fetch # "ok"
         /\ expiredEntry(t)
         /\ ~th[t].fromMemCache
         /\ ~layer.cachePolicy.cacheOnly
         /\ isKeyInLegalRange(layer, th[t].key)) =>
            th[t].result = cacheBin[cacheKey(th[t].key)].hf

\* the source fetch failed and the call returned the expired entry
C14_Witness ==
    /\ th[1].pc = "return" /\ ~canceled[1]
    /\ th[1].fetch = "failed"
    /\ expiredEntry(1)
    /\ th[1].result = cacheBin[cacheKey(th[1].key)].hf

\* C17: under a policy that is not readable no call reads the persistent
\* tier or holds a grid from it, and under a policy that is not writable no
\* call writes it: the bin stays as it was.
C17_PolicyGatesPersistentTier ==
    \A t \in Threads :
        /\ ~layer.cachePolicy.readable =>
               ~th[t].readCache /\ ~th[t].fromCache /\ th[t].cachedHF = NullHF
        /\ ~layer.cachePolicy.writable =>
               ~th[t].wroteCache /\ cacheBin \in InitialBins

\* a call fetched and returned a grid under a policy that allows neither
\* reads nor writes, while the bin holds an entry for the key
C17_Witness ==
    /\ ~layer.cachePolicy.readable /\ ~layer.cachePolicy.writable
    /\ th[1].pc = "return" /\ th[1].fetch = "ok" /\ valid(th[1].result)
    /\ cacheKey(th[1].key) \in DOMAIN cacheBin

\* the grid the sanitation step receives for key (lines 462-482)
Produced(key) ==
    IF layer.vdatumDiffers THEN VerticalDatumTransform(SourceHF(key))
    ELSE SourceHF(key)

\* hf is raw with exactly the NaN, no-data and out-of-range samples replaced
\* by NO_DATA_VALUE
sanitized(raw, hf) ==
    /\ hf.cols = raw.cols /\ hf.rows = raw.rows
    /\ Len(hf.heights) = Len(raw.heights)
    /\ \A i \in 1..Len(raw.heights) :
          LET v == raw.heights[i]
          IN IF \/ v = NaN
                \/ v = layer.noDataValue
                \/ v < layer.minValidValue
                \/ v > layer.maxValidValue
             THEN hf.heights[i] = NO_DATA_VALUE
             ELSE hf.heights[i] = v

\* C19: the grid a call holds after a successful fetch, and the grid it
\* wrote to the persistent tier, is the produced grid with each sample that
\* is NaN, the layer's no-data value or outside the valid range replaced by
\* NO_DATA_VALUE and every other sample unchanged.
C19_FreshGridsSanitized ==
    \A t \in Threads :
        (/\ th[t].pc \in {"cancel2", "memWrite", "return"}
         /\ th[t].fetch = "ok"
         /\ valid(th[t].result)) =>
            /\ sanitized(Produced(th[t].key), th[t].result)
            /\ th[t].wroteCache =>
                   sanitized(Produced(th[t].key), cacheBin[cacheKey(th[t].key)].hf)

\* a call returned a fetched grid and wrote it to the persistent tier
C19_Witness ==
    /\ th[1].pc = "return" /\ th[1].fetch = "ok" /\ valid(th[1].result)
    /\ th[1].wroteCache
    /\ \E i \in 1..Len(th[1].result.heights) :
          th[1].result.heights[i] = NO_DATA_VALUE
    /\ \E i \in 1..Len(th[1].result.heights) :
          th[1].result.heights[i] # NO_DATA_VALUE

\* the entries of a cache tier under keys other than k are the same in b2
\* as in b
otherEntriesKept(b, b2, k) ==
    \A x \in (DOMAIN b \cup DOMAIN b2) \ {k} :
        x \in DOMAIN b /\ x \in DOMAIN b2 /\ b2[x] = b[x]

\* C16 as stated: a step of one call changes nothing that another call can
\* see but the cache entries under its own tile address: not the layer, not
\* the locals of another call, not an entry under another address.
C16_SharesOnlyCacheEntries ==
    [][\A t \in Threads :
          th'[t] # th[t] =>
              /\ layer' = layer
              /\ \A u \in Threads \ {t} : th'[u] = th[u]
              /\ otherEntriesKept(cacheBin, cacheBin', cacheKey(th[t].key))
              /\ otherEntriesKept(memCache, memCache', memCacheKey(th[t].key))]_vars

\* C16 amended: a step of one call changes the cache entries under its own
\* tile address and the enabled/status state of the layer only, and a call
\* that finds the layer disabled by another call has no profile to work
\* with and no memory-tier entry for its key, so that it returns the invalid
\* result it would return alone.
C16_SharesCacheEntriesAndStatus ==
    /\ [][\A t \in Threads :
            th'[t] # th[t] =>
                /\ layer' = [layer EXCEPT !.enabled = layer'.enabled,
                                          !.statusError = layer'.statusError]
                /\ \A u \in Threads \ {t} : th'[u] = th[u]
                /\ otherEntriesKept(cacheBin, cacheBin', cacheKey(th[t].key))
                /\ otherEntriesKept(memCache, memCache', memCacheKey(th[t].key))]_vars
    /\ [](\A t \in Threads :
            (th[t].pc = "return" /\ (~layer.enabled \/ layer.statusError)) =>
                /\ th[t].result = NullHF
                /\ ~layer.hasProfile /\ ~layer.cachePolicy.cacheOnly
                /\ memCacheKey(th[t].key) \notin DOMAIN memCache)

\* two calls on different tile addresses have run side by side and each
\* has written the persistent tier
C16_Witness ==
    /\ th[1].pc = "return" /\ th[2].pc = "return"
    /\ th[1].key # th[2].key
    /\ th[1].wroteCache /\ th[2].wroteCache
    /\ cacheKey(th[1].key) \in DOMAIN cacheBin
    /\ cacheKey(th[2].key) \in DOMAIN cacheBin

\* thread t is about to return from a call for a key for which an earlier
\* call has returned a valid heightfield, on a layer with a memory cache
LaterCall(t) ==
    /\ th[t].pc = "return"
    /\ layer.memCache
    /\ valid(last.firstValid)
    /\ last.firstKey = th[t].key

\* C22, as claimed: every call that follows a call that returned a valid
\* heightfield for the key returns that heightfield from the memory cache,
\* and has not read the persistent bin, not asked the source and not
\* written a cache.
C22_LaterCallsServedFromMemory ==
    \A t \in Threads :
        LaterCall(t) =>
            /\ th[t].result = last.firstValid
            /\ th[t].fromMemCache
            /\ ~th[t].readCache
            /\ th[t].fetch = "none"
            /\ ~th[t].wroteCache /\ ~th[t].wroteMemCache

\* C22, amended: such a call has taken the heightfield from the memory
\* cache, has not read the persistent bin, not asked the source and not
\* written a cache; it returns the heightfield, or INVALID when it was
\* canceled.
C22_LaterCallsServedUnlessCanceled ==
    \A t \in Threads :
        LaterCall(t) =>
            /\ th[t].fromMemCache
            /\ ~th[t].readCache
            /\ th[t].fetch = "none"
            /\ ~th[t].wroteCache /\ ~th[t].wroteMemCache
            /\ \/ th[t].result = last.firstValid
               \/ canceled[t] /\ th[t].result = NullHF
            /\ ~canceled[t] => th[t].result = last.firstValid

\* a later call returns the heightfield of the first, which the first had
\* fetched from the source
C22_Witness ==
    \E t \in Threads :
        /\ LaterCall(t)
        /\ ~canceled[t]
        /\ th[t].result = last.firstValid
        /\ last.fetch = "ok"

\* thread t's call read a valid persistent entry that had not expired
\* (lines 406-416 took it) and has gone on from there
freshHit(t) ==
    /\ th[t].pc \in {"cancel2", "memWrite", "return"}
    /\ th[t].readCache
    /\ validateHeightField(th[t].cachedHF)
    /\ ~th[t].expired

\* what a call that took a fresh persistent entry leaves alone: the source
\* and the assembler are not called, the persistent tier is not written
freshHitLeavesAlone(t) ==
    /\ th[t].fetch = "none"
    /\ ~th[t].wroteCache
    /\ cacheKey(th[t].key) \in DOMAIN cacheBin
    /\ cacheBin[cacheKey(th[t].key)].hf = th[t].cachedHF

\* C32 as stated: a call that takes a valid, non-expired persistent entry
\* makes no source or assembler call, does not write the persistent tier,
\* and returns the cached samples as they are in the entry, neither
\* datum-shifted nor sanitized, writing them to the in-process tier only.
C32_FreshHitReturnedAsIs ==
    \A t \in Threads :
        freshHit(t) /\ th[t].pc = "return" =>
            /\ freshHitLeavesAlone(t)
            /\ th[t].result = th[t].cachedHF

\* C32, amended: the same, except that a call whose token is canceled
\* returns invalid and writes no tier; a call that is not canceled returns
\* the cached samples as they are and writes them through to the in-process
\* tier when the layer has one.
C32_FreshHitReturnedAsIsUnlessCanceled ==
    \A t \in Threads :
        freshHit(t) =>
            /\ freshHitLeavesAlone(t)
            /\ th[t].pc \in {"cancel2", "memWrite"} =>
                   th[t].result = th[t].cachedHF
            /\ th[t].pc = "return" =>
                   \/ /\ th[t].result = th[t].cachedHF
                      /\ th[t].wroteMemCache = layer.memCache
                      /\ layer.memCache =>
                            /\ memCacheKey(th[t].key) \in DOMAIN memCache
                            /\ memCache[memCacheKey(th[t].key)] = th[t].cachedHF
                   \/ /\ isCanceled(t)
                      /\ th[t].result = NullHF
                      /\ ~th[t].wroteMemCache

\* a call on a layer whose vertical datum differs from the key's returns a
\* cached grid that sanitation would change, and has written it through
C32_Witness ==
    \E t \in Threads :
        /\ freshHit(t)
        /\ th[t].pc = "return"
        /\ layer.vdatumDiffers
        /\ th[t].result = StaleHF
        /\ normalizeNoDataValues(StaleHF) # StaleHF
        /\ th[t].wroteMemCache

----------------------------------------------------------------------------
(* Properties of populateHeightFieldAndNormalMap *)

\* the sampling loop has been through sample p
processed(p) == trace.resolvedIndex[p] >= -1

\* contender i holds a tile whose sample at p is an elevation
yields(i, p) ==
    /\ ws.heightFields[i] # INVALID
    /\ getElevation(ws.heightFields[i], columnOf(p), rowOf(p))
    /\ elevationOf(ws.heightFields[i], columnOf(p), rowOf(p)) # NO_DATA_VALUE

\* the contenders that have an elevation for sample p
yielding(p) == {i \in 1..Len(sel.contenders) : yields(i, p)}

\* the levels at which the layer of contender i has a tile that the walk
\* from the contender's key up the ancestors can reach
reachable(i) ==
    LET k == sel.contenders[i].key
        lay == stack[sel.contenders[i].index]
    IN {l \in 0..k.lod :
           /\ l \in lay.fetchable
           /\ \A m \in l..k.lod : isKeyInLegalRange(lay, createAncestorKey(k, m))}

\* the tile the layer of contender i has for the sample: that of the deepest
\* reachable level
tileFor(i) ==
    Tile(sel.contenders[i].index,
         CHOOSE l \in reachable(i) : \A m \in reachable(i) : l >= m)

\* the layer of contender i has a tile whose sample at p is an elevation
has(i, p) ==
    /\ reachable(i) # {}
    /\ getElevation(tileFor(i), columnOf(p), rowOf(p))
    /\ elevationOf(tileFor(i), columnOf(p), rowOf(p)) # NO_DATA_VALUE

having(p) == {i \in 1..Len(sel.contenders) : has(i, p)}

\* C6: in the sampling loop, every sample for which some contender has a
\* tile with an elevation there takes, in the base pass, the elevation of
\* the contender of highest stack index among those, and that contender is
\* recorded as the winner: among the tiles the call holds, whether or not
\* the token is canceled, and among the tiles the layers have, while it is
\* not.
C6_PriorityCorrect ==
    \A p \in 1..total :
        /\ (processed(p) /\ yielding(p) # {}) =>
              LET b == CHOOSE i \in yielding(p) :
                          \A j \in yielding(p) :
                              sel.contenders[i].index >= sel.contenders[j].index
              IN /\ trace.resolvedIndex[p] = sel.contenders[b].index
                 /\ trace.base[p].height =
                        elevationOf(ws.heightFields[b], columnOf(p), rowOf(p))
        /\ (processed(p) /\ ~token /\ having(p) # {}) =>
              LET b == CHOOSE i \in having(p) :
                          \A j \in having(p) :
                              sel.contenders[i].index >= sel.contenders[j].index
              IN /\ trace.resolvedIndex[p] = sel.contenders[b].index
                 /\ trace.base[p].height =
                        elevationOf(tileFor(b), columnOf(p), rowOf(p))

\* a finished call in which two contenders had an elevation for one sample
C6_Witness ==
    /\ pos.pc = "done" /\ pos.result /\ ~token
    /\ \E p \in 1..total :
          /\ processed(p)
          /\ Cardinality(yielding(p)) >= 2
          /\ Cardinality(having(p)) >= 2

\* C7: for every sample a contender of stack index k won, no offset layer
\* of stack index below k was applied to it, and when all offsets lie below
\* k the height and the LOD delta of the sample are those of the base pass.
C7_OffsetsBelowWinnerSuppressed ==
    \A p \in 1..total :
        (processed(p) /\ trace.resolvedIndex[p] >= 0) =>
            /\ \A j \in trace.applied[p] : j > trace.resolvedIndex[p]
            /\ (\A o \in 1..Len(sel.offsets) :
                    sel.offsets[o].index < trace.resolvedIndex[p]) =>
                    /\ out.hf[p] = trace.base[p].height
                    /\ out.deltaLOD # << >> =>
                           out.deltaLOD[p] = trace.base[p].delta

\* a finished, uncanceled call with a sample won by a contender above an
\* offset layer that has an elevation for that sample
C7_Witness ==
    /\ pos.pc = "done" /\ ~token
    /\ \E p \in 1..total :
          /\ processed(p)
          /\ \E o \in 1..Len(sel.offsets) :
                /\ sel.offsets[o].index < trace.resolvedIndex[p]
                /\ maskAt(stack[sel.offsets[o].index].mask,
                          columnOf(p), rowOf(p)) = "data"

\* the layers that qualify for the requested key
Qualifying == {i \in 0..(NumLayers - 1) : useLayer(i)}

\* C8: when no layer qualifies, or every qualifying layer has a best
\* available key other than its mapped key, the call has returned false
\* right after the selection, has made no createHeightField call and has
\* left the heightfield and the normal map as they were.
C8_EarlyAbort ==
    (pos.pc # "select" /\ \A i \in Qualifying : bestKey(i) # mappedKey(i)) =>
        /\ pos.pc = "done"
        /\ pos.result = FALSE
        /\ trace.resolves = 0
        /\ out.hf = PriorHF
        /\ out.deltaLOD = << >>
        /\ out.normalMap \in {"null", "prior"}

\* a call that returned although layers qualify: all of them are fallback
C8_Witness ==
    /\ pos.pc = "done"
    /\ Qualifying # {}
    /\ \A i \in Qualifying : bestKey(i) # mappedKey(i)

\* C9: a call that returns uncanceled returns true exactly when some sample
\* was filled from a tile that is not ancestor data.
C9_RealDataIffFilled ==
    (pos.pc = "done" /\ ~token) =>
        (pos.result <=> \E p \in 1..total : trace.real[p])

\* the contenders below the first that have an elevation for sample p
havingBelowFirst(p) == having(p) \ {1}

\* C18: when the fetch of the highest-priority contender fails at its key
\* and at every ancestor key, a call that is not canceled goes through
\* every sample, marks that contender failed, and gives each sample the
\* elevation of the highest contender below it that has one there; a sample
\* for which none has one is left without a winner.
C18_SourceFailureNotFatal ==
    (/\ pos.pc = "done" /\ ~token
     /\ Len(sel.contenders) >= 1
     /\ ~allFallback(Len(sel.contenders) + Len(sel.offsets), sel.numFallbackLayers)
     /\ reachable(1) = {}) =>
        /\ ws.heightFailed[1]
        /\ \A p \in 1..total :
              /\ processed(p)
              /\ IF havingBelowFirst(p) = {}
                 THEN trace.resolvedIndex[p] = -1
                 ELSE LET b == CHOOSE i \in havingBelowFirst(p) :
                                  \A j \in havingBelowFirst(p) : i <= j
                      IN /\ trace.resolvedIndex[p] = sel.contenders[b].index
                         /\ trace.base[p].height =
                                elevationOf(tileFor(b), columnOf(p), rowOf(p))

\* the first contender failed at every key and a sample was filled from the
\* second
C18_Witness ==
    /\ pos.pc = "done" /\ ~token
    /\ Len(sel.contenders) >= 2
    /\ reachable(1) = {}
    /\ ws.heightFailed[1]
    /\ \E p \in 1..total :
          trace.resolvedIndex[p] = sel.contenders[2].index

\* the single-contender branch has copied the contender's tile
fastCopied ==
    /\ pos.pc \in {"normals", "finish", "done"}
    /\ out.realData
    /\ \A p \in 1..total : ~processed(p)

offsetHas(o, p) ==
    LET lay == stack[sel.offsets[o].index]
        k == sel.offsets[o].key
    IN /\ lay.enabled
       /\ k.lod \in lay.fetchable
       /\ isKeyInLegalRange(lay, k)
       /\ maskAt(lay.mask, columnOf(p), rowOf(p)) = "data"

offsetSample(o, p) ==
    elevationOf(Tile(sel.offsets[o].index, sel.offsets[o].key.lod),
                columnOf(p), rowOf(p))

\* the offsets that have an elevation for p and lie at or above the winner
\* of p, or all that have one when p has no winner
contributing(p) ==
    {o \in 1..Len(sel.offsets) :
        /\ offsetHas(o, p)
        /\ \/ trace.resolvedIndex[p] < 0
           \/ sel.offsets[o].index >= trace.resolvedIndex[p]}

RECURSIVE sumOfOffsets(_, _)
sumOfOffsets(S, p) ==
    IF S = {} THEN 0
    ELSE LET o == CHOOSE x \in S : TRUE
         IN offsetSample(o, p) + sumOfOffsets(S \ {o}, p)

\* C23: while the token is not canceled, the height of a sample the loop
\* has been through is, before the hole fill, the sample of the tile read
\* for the winning contender (the height the caller handed in when no
\* contender won) plus the sum, in any order, of the elevations of the
\* contributing offsets.
C23_OffsetSummation ==
    \A p \in 1..total :
        (processed(p) /\ ~token /\ ~trace.filled) =>
            out.hf[p] =
                (IF trace.resolvedIndex[p] >= 0
                 THEN elevationOf(Tile(trace.resolvedIndex[p], trace.tileLOD[p]),
                                  columnOf(p), rowOf(p))
                 ELSE PriorHF[p])
                + sumOfOffsets(contributing(p), p)

\* the loop is through a sample that a contender won and an offset added to
C23_Witness ==
    /\ pos.pc = "normals" /\ ~token
    /\ \E p \in 1..total :
          /\ trace.resolvedIndex[p] >= 0
          /\ contributing(p) # {}

\* the contributing offset of highest stack index
topContributing(p) ==
    CHOOSE o \in contributing(p) :
        \A o2 \in contributing(p) : sel.offsets[o].index >= sel.offsets[o2].index

\* C24: while the token is not canceled, a sample with a contributing
\* offset has as its LOD delta the LOD of the requested key minus the LOD
\* of the key of the contributing offset of highest stack index.
C24_HighestOffsetSetsDelta ==
    \A p \in 1..total :
        (/\ processed(p) /\ ~token
         /\ out.deltaLOD # << >>
         /\ contributing(p) # {}) =>
            out.deltaLOD[p] = requestKey.lod - sel.offsets[topContributing(p)].key.lod

\* two offsets with keys of different LODs contributed to one sample
C24_Witness ==
    /\ pos.pc = "done" /\ ~token /\ out.deltaLOD # << >>
    /\ \E p \in 1..total :
          /\ processed(p)
          /\ \E o1, o2 \in contributing(p) :
                sel.offsets[o1].key.lod # sel.offsets[o2].key.lod

\* C25: a sample won by a contender and added to by no offset has as its
\* LOD delta the LOD of the requested key minus the LOD of the tile the
\* sample was read from.
C25_DeltaIsLODOfTileRead ==
    \A p \in 1..total :
        (/\ processed(p)
         /\ out.deltaLOD # << >>
         /\ trace.resolvedIndex[p] >= 0
         /\ trace.applied[p] = {}) =>
            out.deltaLOD[p] = requestKey.lod - trace.tileLOD[p]

\* C26: the walk of a contender makes at most LOD+1 createHeightField
\* calls, one per level from the contender's key upwards; a tile held is
\* the tile of the key the walk ended at, which, while the token is not
\* canceled, is the deepest level that has one, and the contender is marked
\* fallback exactly when that key is not its own; a failed walk ended at an
\* invalid key or outside the legal range, with, while the token is not
\* canceled, no tile at a level it went through.
C26_AncestorWalk ==
    \A i \in DOMAIN ws.heightFields :
        LET k == sel.contenders[i].key
            lay == stack[sel.contenders[i].index]
            w == trace.walk[i]
        IN /\ w.calls <= k.lod + 1
           /\ ws.heightFields[i] # INVALID =>
                 /\ w.calls >= 1
                 /\ w.actualKey = createAncestorKey(k, k.lod - (w.calls - 1))
                 /\ ws.heightFields[i] = Tile(sel.contenders[i].index, w.actualKey.lod)
                 /\ ws.heightFallback[i] = (w.actualKey # k)
                 /\ ~token => \A l \in (w.actualKey.lod + 1)..k.lod :
                                  l \notin lay.fetchable
           /\ ws.heightFailed[i] =>
                 /\ ~keyValid(w.actualKey) \/ ~isKeyInLegalRange(lay, w.actualKey)
                 /\ w.calls = k.lod - w.actualKey.lod
                 /\ ~token => \A l \in (w.actualKey.lod + 1)..k.lod :
                                  l \notin lay.fetchable

\* one walk ended at the parent key with a tile, another left the legal
\* range
C26_Witness ==
    /\ pos.pc = "done" /\ ~token
    /\ \E i, j \in DOMAIN ws.heightFields :
          /\ ws.heightFallback[i] /\ trace.walk[i].calls = 2
          /\ ws.heightFailed[j]
          /\ keyValid(trace.walk[j].actualKey)

\* C29: a call whose token was canceled while a column was being sampled
\* has returned false, without the normal map written and without the hole
\* fill.
C29_CancelInLoopSkipsTheRest ==
    (pos.pc = "done" /\ token /\ trace.cancelPC = "pixel") =>
        /\ ~pos.result
        /\ out.normalMap # "written"
        /\ ~trace.filled

\* what holds of a canceled call: it returns false, starts no column after
\* the poll has seen the token, and writes no normal map
CanceledCallReturnsFalse ==
    /\ (pos.pc = "done" /\ token /\ trace.cancelPC \in {"column", "pixel"}) =>
           ~pos.result /\ out.normalMap # "written"
    /\ (token /\ trace.cancelPC = "column") =>
           \A p \in 1..total : columnOf(p) >= pos.c => ~processed(p)

\* the stack indices a list of LayerData names, and whether it names them
\* from the highest to the lowest
indices(list) == {list[j].index : j \in DOMAIN list}

strictlyDecreasing(list) ==
    \A j, k \in DOMAIN list : j < k => list[j].index > list[k].index

\* the layers the selection pass should keep, told from the stack alone
eligible ==
    {i \in 0..(NumLayers - 1) :
        /\ stack[i].enabled
        /\ stack[i].visible
        /\ stack[i].minLevel <= requestKey.lod
        /\ keyValid(getBestAvailableTileKey(stack[i],
                mapResolution(keyToUse, NumColumns, stack[i].tileSize)))}

\* C31: after the selection pass the contenders and the offsets are each in
\* strictly decreasing stack index, share no layer, and hold between them
\* exactly the layers that are enabled and visible, whose minimum level is
\* not above the requested LOD and that have a valid best available key; the
\* fallback tally is the number of those layers whose best available key
\* differs from the mapped key.
C31_SelectionInvariant ==
    pos.pc # "select" =>
        /\ strictlyDecreasing(sel.contenders)
        /\ strictlyDecreasing(sel.offsets)
        /\ Len(sel.contenders) = Cardinality(indices(sel.contenders))
        /\ Len(sel.offsets) = Cardinality(indices(sel.offsets))
        /\ indices(sel.contenders) \cap indices(sel.offsets) = {}
        /\ indices(sel.contenders) \cup indices(sel.offsets) = eligible
        /\ sel.numFallbackLayers =
             Cardinality({i \in eligible :
                 getBestAvailableTileKey(stack[i],
                     mapResolution(keyToUse, NumColumns, stack[i].tileSize))
                 # mapResolution(keyToUse, NumColumns, stack[i].tileSize)})

\* two contenders were selected, one of them with fallback data, and the
\* sampling went on
C31_Witness ==
    /\ pos.pc = "pixel"
    /\ Len(sel.contenders) = 2
    /\ sel.numFallbackLayers = 1

\* C35: every LOD delta the compositor records is non-negative and fits the
\* 16-bit element of the array, so that the step 2^delta of normal synthesis
\* is a positive integer; the level of the key of a contributing layer,
\* after resolution mapping, best-available lookup and ancestor walk, is
\* never above the requested level.
C35_DeltasNonNegative ==
    /\ \A p \in DOMAIN out.deltaLOD :
          /\ out.deltaLOD[p] \in 0..32767
          /\ out.deltaLOD[p] <= requestKey.lod
          /\ 2 ^ out.deltaLOD[p] \in 1..(2 ^ requestKey.lod)
    /\ \A i \in DOMAIN sel.contenders :
          /\ sel.contenders[i].key.lod <= requestKey.lod
          /\ trace.walk[i].actualKey.lod <= requestKey.lod
    /\ \A i \in DOMAIN sel.offsets : sel.offsets[i].key.lod <= requestKey.lod
    /\ \A p \in 1..total : trace.tileLOD[p] <= requestKey.lod

\* a call with a normal map has ended with a delta of 1 at one sample and a
\* delta of 0 at another
C35_Witness ==
    /\ pos.pc = "done"
    /\ out.normalMap = "written"
    /\ \E p, q \in DOMAIN out.deltaLOD :
          out.deltaLOD[p] = 1 /\ out.deltaLOD[q] = 0

----------------------------------------------------------------------------
(* Properties of assembleHeightField *)

\* the assembly has run to its end with heightfields, and was not canceled
assembled ==
    asm.pc = "done" /\ ~asm.canceled /\ asm.heightFields # << >>

outputSamples == (0..(asm.width - 1)) \X (0..(asm.height - 1))

\* the heightfields are in the order finest resolution first
finestFirst ==
    \A i, j \in 1..Len(asm.heightFields) :
        i < j => asm.heightFields[i].tile.resolution
                     <= asm.heightFields[j].tile.resolution

\* the heightfields whose extent holds output sample p
containing(p) ==
    {i \in 1..Len(asm.heightFields) : contains(asm.heightFields[i], xOf(p[1]))}

\* the heightfields that have an elevation other than no-data for p
withData(p) ==
    {i \in containing(p) :
        sampleOf(asm.heightFields[i], p[1], p[2]) # NO_DATA_VALUE}

\* C15: in an assembled grid the heightfields were sampled finest first,
\* and every output sample has the elevation and the normal of the first
\* heightfield that has an elevation other than no-data at its position;
\* where none has one the sample is NO_DATA_VALUE, with the normal (0,0,1)
\* where no heightfield holds the position.
C15_FirstTileWithDataWins ==
    assembled =>
        /\ finestFirst
        /\ \A p \in outputSamples :
              IF withData(p) = {}
              THEN /\ asm.out_hf[p] = NO_DATA_VALUE
                   /\ containing(p) = {} => asm.out_normalMap[p] = Up
              ELSE LET k == CHOOSE i \in withData(p) :
                                \A j \in withData(p) : i <= j
                   IN /\ asm.out_hf[p] =
                             sampleOf(asm.heightFields[k], p[1], p[2])
                      /\ asm.out_normalMap[p] =
                             normalOf(asm.heightFields[k], p[1], p[2])

\* what the loop at 276-288 does: every output sample has the elevation and
\* the normal of the first heightfield, finest first, whose extent holds
\* its position, be that elevation no-data or not
AssembledFromFirstContainingTile ==
    assembled =>
        /\ finestFirst
        /\ \A p \in outputSamples :
              IF containing(p) = {}
              THEN asm.out_hf[p] = NO_DATA_VALUE /\ asm.out_normalMap[p] = Up
              ELSE LET k == CHOOSE i \in containing(p) :
                                \A j \in containing(p) : i <= j
                   IN /\ asm.out_hf[p] =
                             sampleOf(asm.heightFields[k], p[1], p[2])
                      /\ asm.out_normalMap[p] =
                             normalOf(asm.heightFields[k], p[1], p[2])

\* a fine tile on the left half and a coarse tile on the right half: each
\* half of the assembled grid carries its own tile's values
DisjointHalvesKeepOwnValues ==
    (/\ assembled
     /\ asm.tiles = <<[CoarseTile EXCEPT !.extent = "right"],
                      [FineTile EXCEPT !.extent = "left"]>>) =>
        \A p \in outputSamples :
            asm.out_hf[p] =
                IF xOf(p[1]) <= maxx \div 2
                THEN sampleOf([id |-> 2, tile |-> asm.intersectingTiles[2]], p[1], p[2])
                ELSE sampleOf([id |-> 1, tile |-> asm.intersectingTiles[1]], p[1], p[2])

\* a canceled assembly hands back no grid
CanceledAssemblyIsCleared ==
    (asm.pc = "done" /\ asm.canceled) =>
        asm.out_hf = NoGrid /\ asm.out_normalMap = NoGrid

\* the intersecting tiles the loop at 218 has been through
tilesDone ==
    IF asm.pc \in {"idle", "intersect", "walk"} THEN {}
    ELSE IF asm.pc = "collect" THEN 1..(asm.i - 1)
    ELSE 1..Len(asm.intersectingTiles)

\* C27, as claimed: the assembler gets its native tiles through the
\* resolver and never calls createHeightFieldImplementation itself.
C27_TilesThroughResolver ==
    asm.pc = "done" => asm.implCalls = 0

\* C27, amended: the assembler calls createHeightFieldImplementation once
\* for every intersecting tile in the legal range and for no other, keeps
\* the heightfields that are valid, and reads and writes no cache.
C27_TilesFromTheSourceDirectly ==
    /\ asm.implCalls =
           Cardinality({j \in tilesDone : asm.intersectingTiles[j].legal})
    /\ {asm.heightFields[j].id : j \in 1..Len(asm.heightFields)} =
           {j \in tilesDone : /\ asm.intersectingTiles[j].legal
                              /\ asm.intersectingTiles[j].valid}
    /\ memCache = << >> /\ cacheBin = << >>

\* an assembly with a tile outside the legal range, a tile the source has
\* nothing for, and a tile that is kept
C27_Witness ==
    /\ asm.pc = "done" /\ ~asm.canceled
    /\ asm.implCalls >= 1
    /\ \E j \in 1..Len(asm.intersectingTiles) : ~asm.intersectingTiles[j].legal
    /\ asm.heightFields # << >>

\* C28: the assembler asks for no native tile once the progress is
\* canceled, and a canceled assembly hands back no heightfield and no
\* normal map.
C28_NoFetchOnceCanceled ==
    asm.pc = "done" =>
        /\ ~asm.fetchedCanceled
        /\ asm.canceled => asm.out_hf = NoGrid /\ asm.out_normalMap = NoGrid

\* C30: for a key of LOD 0 the levels looked at are the equivalent LOD and
\* the levels below it, one by one, at most equivalentLOD + 1 of them; when
\* the loop is left the intersecting tiles are those of the last level
\* looked at, no level looked at before it has a tile that may have data,
\* and either a tile of the last level may have data or that level is 0.
C30_LODWalk ==
    (asm.keyLOD = 0 /\ asm.pc \notin {"idle", "intersect"}) =>
        LET v == asm.visited
        IN /\ Len(v) <= asm.equivalentLOD + 1
           /\ \A j \in 1..Len(v) : v[j] = asm.equivalentLOD - (j - 1)
           /\ asm.pc # "walk" =>
                 /\ Len(v) >= 1
                 /\ asm.intersectingTiles = getIntersectingTiles(v[Len(v)])
                 /\ \A j \in 1..(Len(v) - 1) :
                        asm.tiles = << >> \/ v[j] \notin asm.dataLevels
                 /\ \/ v[Len(v)] = 0
                    \/ \E j \in 1..Len(asm.intersectingTiles) :
                          asm.intersectingTiles[j].lod \in asm.dataLevels

\* a walk that went down a level and stopped above level 0 at tiles that
\* may have data
C30_Witness ==
    /\ asm.pc = "done" /\ asm.keyLOD = 0
    /\ Len(asm.visited) >= 2
    /\ asm.visited[Len(asm.visited)] > 0
    /\ asm.heightFields # << >>

----------------------------------------------------------------------------
(* Properties of the calls of createHeightFieldImplementation *)

\* the key's level lies between the layer's minLevel and maxLevel
withinLevels(lay, key) == lay.minLevel <= key.lod /\ key.lod <= lay.maxLevel

\* C33: every call of the source backend, made by createHeightField itself,
\* by assembleHeightField, or for the compositor's fast path, ancestor walk
\* or offsets, is made with a key in the layer's legal range; and
\* createHeightField of a key outside the range that is in neither cache
\* tier returns invalid.
C33_SourceKeysLegal ==
    /\ \A t \in Threads :
          /\ th[t].fetch # "none" => withinLevels(layer, th[t].key)
          /\ (/\ th[t].pc = "return"
              /\ ~withinLevels(layer, th[t].key)
              /\ ~th[t].fromMemCache
              /\ cacheKey(th[t].key) \notin DOMAIN cacheBin)
             => th[t].result = NullHF
    /\ \A call \in trace.source : withinLevels(stack[call.layer], call.key)
    /\ \A layerKey \in asm.implTiles : layerKey.legal

\* the compositor walked up from a contender's key, asked the source at two
\* levels, and stopped where the parent key left the layer's legal range
C33_Witness ==
    \E i \in DOMAIN sel.contenders :
        LET l == sel.contenders[i].index
        IN /\ Cardinality({call \in trace.source : call.layer = l}) = 2
           /\ keyValid(trace.walk[i].actualKey)
           /\ ~withinLevels(stack[l], trace.walk[i].actualKey)

----------------------------------------------------------------------------
(* Properties of createNormalMap *)

\* C34: the LOD-delta array is indexed consistently. For every grid shape,
\* grids with other than as many rows as columns among them, createNormalMap
\* reads for sample (column s, row t) the delta that the sampling loop
\* recorded for that sample, and every index used to read or to write the
\* array is below its size rows * columns.
C34_DeltaReadWhereRecorded ==
    /\ \A c \in 0..(nmap.w - 1), r \in 0..(nmap.h - 1) :
          writeIndex(c, r, nmap.w) < nmap.w * nmap.h
    /\ \A rd \in nmap.reads :
          /\ rd.index < nmap.w * nmap.h
          /\ rd.index = writeIndex(rd.s, rd.t, nmap.w)
          /\ rd.delta = nmap.deltaLOD[writeIndex(rd.s, rd.t, nmap.w) + 1]

\* on a grid with as many rows as columns the reads are where the writes were
SquareGridsReadWhereRecorded ==
    nmap.w = nmap.h =>
        /\ nmap.pc # "fault"
        /\ \A rd \in nmap.reads :
              /\ rd.index < nmap.w * nmap.h
              /\ rd.index = writeIndex(rd.s, rd.t, nmap.w)
              /\ rd.delta = nmap.deltaLOD[writeIndex(rd.s, rd.t, nmap.w) + 1]

\* on a grid with more rows than columns a read falls past the end of the
\* array
ReadPastTheEnd ==
    \E rd \in nmap.reads : rd.index >= nmap.w * nmap.h

\* on a grid with more columns than rows every read is inside the array,
\* and one of them is of another sample's delta
ReadOfAnotherSample ==
    /\ nmap.w > nmap.h
    /\ nmap.pc = "done"
    /\ \A rd \in nmap.reads : rd.index < nmap.w * nmap.h
    /\ \E rd \in nmap.reads :
          rd.delta # nmap.deltaLOD[writeIndex(rd.s, rd.t, nmap.w) + 1]

----------------------------------------------------------------------------
(* Properties of the grids held *)

\* C21: the grids of the layers of the vector that a call holds, those of
\* the contenders and those of the offsets, are at most maxHeightFields at
\* any time.
C21_HeldGridsBounded ==
    held.heightFields + held.offsetFields <= maxHeightFields

\* what the counter bounds: the grids of the contenders, which are all
\* dropped when their number reaches maxHeightFields
ContenderGridsBounded ==
    /\ held.heightFields = held.numHeightFieldsInCache
    /\ held.heightFields <= maxHeightFields
    /\ (held.pc = "loop") => held.heightFields < maxHeightFields

====
